---- MODULE Spec2Model ----
(***************************************************************************)
(* Resume builder backend: filename sanitizer (pdf_service.py), AI         *)
(* provider selection, fence stripping and response normalisation          *)
(* (ai_service.py) and the HTML renderer (resume_builder.py).              *)
(*                                                                         *)
(* Text that the code inspects character by character is a sequence of     *)
(* one-character strings.  Characters outside ASCII are written by their   *)
(* code point ("U+2022" is the bullet glyph).  Python values whose type    *)
(* the code does not fix (JSON read from the provider) are tagged records: *)
(* None, Str(s), List(l).                                                  *)
(***************************************************************************)
EXTENDS Integers, Sequences, FiniteSets, TLC

VARIABLES
    \* PDFService._sanitize_filename
    san_pc,             \* "call" | "return"
    filename,           \* the argument
    sanitized           \* the value returned

sanVars == <<san_pc, filename, sanitized>>

VARIABLES
    \* config.py: the credentials read from the environment
    OPENAI_API_KEY, ANTHROPIC_API_KEY, GEMINI_API_KEY,
    \* the caller's arguments to AIService(use_claude, use_gemini)
    arg_use_claude, arg_use_gemini,
    \* AIService's fields
    use_claude, use_gemini,
    openai_api_key, anthropic_api_key, gemini_api_key,
    \* AIService.optimize_resume
    ai_pc,              \* "new" | "ready" | "awaiting" | "parse" | "returned" | "raised"
    request,            \* the ResumeRequest
    posts,              \* the provider HTTP POSTs issued, in order
    http_calls,         \* the request each of them sent
    reply,              \* the provider's reply to the POST
    response_data,      \* the JSON value parsed from the provider's text
    ai_result,          \* the OptimizedResumeData returned
    ai_error            \* the exception raised

cfgVars == <<OPENAI_API_KEY, ANTHROPIC_API_KEY, GEMINI_API_KEY,
             arg_use_claude, arg_use_gemini>>

selfVars == <<use_claude, use_gemini,
              openai_api_key, anthropic_api_key, gemini_api_key>>

aiVars == <<cfgVars, selfVars, ai_pc, request, posts, http_calls, reply, response_data,
            ai_result, ai_error>>

\* ResumeBuilder: the arguments of the call, the function called, the
\* bullet_points list of every experience entry, and the HTML returned
VARIABLES render_pc, arg_personal_info, arg_optimized_data, arg_template,
          builder, entry_bullet_points, html

renderVars == <<render_pc, arg_personal_info, arg_optimized_data, arg_template,
                builder, entry_bullet_points, html>>

\* PDFService.generate_pdf: the arguments of the call, the file name returned,
\* the exception raised, and the files of PDFService.output_dir
VARIABLES pdf_pc, arg_filename, arg_candidate_name, pdf_filename, pdf_error,
          output_dir

pdfVars == <<pdf_pc, arg_filename, arg_candidate_name, pdf_filename, pdf_error,
             output_dir>>

\* routers/resume.py: whether the AI provider answers a POST or times out,
\* the requests generate_resume has handled in order, its answer to each and
\* how the rendering of the HTML ran in each, and one call of
\* download_resume_pdf
VARIABLES provider_reachable, gen_requests, gen_responses, gen_html_runs,
          dl_pc, dl_filename, dl_response

routerVars == <<provider_reachable, gen_requests, gen_responses, gen_html_runs,
                dl_pc, dl_filename, dl_response>>

vars == <<sanVars, aiVars, renderVars, pdfVars, routerVars>>

\* What an action of one component leaves alone
notSanVars == <<aiVars, renderVars, pdfVars, routerVars>>

notAiVars == <<sanVars, renderVars, pdfVars, routerVars>>

notRenderVars == <<sanVars, aiVars, pdfVars, routerVars>>

notPdfVars == <<sanVars, aiVars, renderVars, routerVars>>

\* The router writes PDFService.output_dir and nothing else of these
notRouterVars == <<sanVars, aiVars, renderVars,
                   pdf_pc, arg_filename, arg_candidate_name, pdf_filename, pdf_error>>

-----------------------------------------------------------------------------
(* Bounds of the model *)

MaxNameLen == 5

MaxTextLen == 3

MaxOrigEntries == 2

MaxAiEntries == 2

\* Longest responsibilities text drawn from RespChars
MaxRespLen == 3

\* Most achievements of an entry drawn from AchTexts
MaxAchievements == 2

\* Most experience entries, and most education entries, of a rendered resume
MaxRenderEntries == 2

\* Longest filename and candidate_name given to generate_pdf
MaxPdfNameLen == 2

\* Longest of the short filenames given to download_resume_pdf
MaxDownloadLen == 2

-----------------------------------------------------------------------------
(* Python str helpers over sequences of characters *)

Range(s) == {s[i] : i \in 1..Len(s)}

Whitespace == {" ", "\n", "\t", "\r"}

UpperCase == <<"A","B","C","D","E","F","G","H","I","J","K","L","M",
               "N","O","P","Q","R","S","T","U","V","W","X","Y","Z">>

LowerCase == <<"a","b","c","d","e","f","g","h","i","j","k","l","m",
               "n","o","p","q","r","s","t","u","v","w","x","y","z">>

Digits == {"0","1","2","3","4","5","6","7","8","9"}

\* str.lower() on one character
lower_char(c) ==
    IF \E i \in 1..Len(UpperCase) : UpperCase[i] = c
    THEN LowerCase[CHOOSE i \in 1..Len(UpperCase) : UpperCase[i] = c]
    ELSE c

\* str.lower()
str_lower(s) == [i \in 1..Len(s) |-> lower_char(s[i])]

\* str.replace(old, new) for a one-character old
str_replace_char(s, old, new) == [i \in 1..Len(s) |-> IF s[i] = old THEN new ELSE s[i]]

\* str.replace("__", "_"): non-overlapping occurrences, left to right
RECURSIVE str_replace_double(_)
str_replace_double(s) ==
    IF Len(s) < 2 THEN s
    ELSE IF s[1] = "_" /\ s[2] = "_"
         THEN <<"_">> \o str_replace_double(SubSeq(s, 3, Len(s)))
         ELSE <<s[1]>> \o str_replace_double(Tail(s))

\* "__" in s
has_double(s) == \E i \in 1..(Len(s) - 1) : s[i] = "_" /\ s[i + 1] = "_"

\* str.lstrip(chars)
RECURSIVE str_lstrip(_, _)
str_lstrip(s, chars) ==
    IF s # <<>> /\ s[1] \in chars THEN str_lstrip(Tail(s), chars) ELSE s

\* str.rstrip(chars)
RECURSIVE str_rstrip(_, _)
str_rstrip(s, chars) ==
    IF s # <<>> /\ s[Len(s)] \in chars
    THEN str_rstrip(SubSeq(s, 1, Len(s) - 1), chars)
    ELSE s

\* str.strip(chars)
str_strip(s, chars) == str_rstrip(str_lstrip(s, chars), chars)

\* All sequences over alphabet of length at most n
RECURSIVE SeqsUpTo(_, _)
SeqsUpTo(alphabet, n) ==
    IF n = 0 THEN {<<>>}
    ELSE LET shorter == SeqsUpTo(alphabet, n - 1)
         IN shorter \cup {Append(s, c) : s \in shorter, c \in alphabet}

\* The concatenation of the sequences items[1], items[2], ...
RECURSIVE Concat(_)
Concat(items) == IF items = <<>> THEN <<>> ELSE Head(items) \o Concat(Tail(items))

\* A mutant of str_join: the separator after every item
RECURSIVE str_join_trailing(_, _)
str_join_trailing(separator, items) ==
    IF items = <<>> THEN <<>>
    ELSE items[1] \o separator \o str_join_trailing(separator, Tail(items))

\* separator.join(items)
RECURSIVE str_join(_, _)
str_join(separator, items) ==
    IF items = <<>> THEN <<>>
    ELSE IF Len(items) = 1 THEN items[1]
    ELSE items[1] \o separator \o str_join(separator, Tail(items))

-----------------------------------------------------------------------------
(* pdf_service.py: PDFService._sanitize_filename *)

invalid_chars == <<"<", ">", ":", "\"", "/", "\\", "|", "?", "*">>

\* for char in invalid_chars: sanitized = sanitized.replace(char, "_")
RECURSIVE replace_invalid(_, _)
replace_invalid(s, k) ==
    IF k > Len(invalid_chars) THEN s
    ELSE replace_invalid(str_replace_char(s, invalid_chars[k], "_"), k + 1)

\* A mutant of collapse_underscores: one replace pass instead of the loop
collapse_once(s) == str_replace_double(s)

\* while "__" in sanitized: sanitized = sanitized.replace("__", "_")
RECURSIVE collapse_underscores(_)
collapse_underscores(s) ==
    IF has_double(s) THEN collapse_underscores(str_replace_double(s)) ELSE s

\* str(uuid.uuid4())[:8]: eight lowercase hexadecimal digits, chosen at random
Uuid8 == { <<"3","f","2","a","9","c","0","d">>,
           <<"0","4","1","7","7","2","9","8">> }

sanitize_filename(name, uuid) ==
    LET replaced  == str_replace_char(replace_invalid(name, 1), " ", "_")
        collapsed == collapse_underscores(replaced)
        stripped  == str_lower(str_strip(collapsed, {"_"}))
    IN IF stripped = <<>> THEN uuid ELSE stripped

\* The spec's example input: John  O'Brien!!
JohnOBrien == <<"J","o","h","n"," "," ","O","'","B","r","i","e","n","!","!">>

NameChars == {"J", "n", " ", "_", "'", "/"}

Filenames == SeqsUpTo(NameChars, MaxNameLen) \cup {JohnOBrien}

IdleSanitize ==
    /\ san_pc = "idle"
    /\ filename = <<>>
    /\ sanitized = <<>>

InitSanitize ==
    /\ san_pc = "call"
    /\ filename \in Filenames
    /\ sanitized = <<>>

SanitizeFilename ==
    /\ san_pc = "call"
    /\ \E u \in Uuid8 : sanitized' = sanitize_filename(filename, u)
    /\ san_pc' = "return"
    /\ UNCHANGED <<filename, notSanVars>>

NextSanitize == SanitizeFilename

-----------------------------------------------------------------------------
(* Python values *)

None == [t |-> "None"]

Str(s) == [t |-> "str", v |-> s]

List(l) == [t |-> "list", v |-> l]

\* bool(x)
Truthy(x) ==
    CASE x.t = "None" -> FALSE
      [] x.t = "str"  -> x.v # ""
      [] x.t = "list" -> x.v # <<>>

\* x is a dict: a value of another JSON type is tagged with its type t
is_dict(x) == "t" \notin DOMAIN x

\* "for item in x: item.get(...)" finds an item without get: an entry of a
\* list that is no dict, a character of a string
has_no_get(x) ==
    CASE x.t = "list" -> \E i \in 1..Len(x.v) : ~is_dict(x.v[i])
      [] x.t = "str"  -> TRUE

\* dict.get(key, default)
dict_get(d, key, default) == IF key \in DOMAIN d THEN d[key] ELSE default

\* How a call ends
Return(v) == [raised |-> FALSE, value |-> v]

Raise(type, msg) == [raised |-> TRUE, type |-> type, msg |-> msg]

NoError == [type |-> "", msg |-> ""]

-----------------------------------------------------------------------------
(* models.py, schemas.py: the request and the optimized resume *)

ExperienceModel(company, role, start_date, end_date, responsibilities, achievements) ==
    [company |-> company, role |-> role, start_date |-> start_date,
     end_date |-> end_date, responsibilities |-> responsibilities,
     achievements |-> achievements]

EducationModel(degree, institution, year) ==
    [degree |-> degree, institution |-> institution, year |-> year]

OptimizedResumeData(summary, experience, education, skills, ats_keywords) ==
    [summary |-> summary, experience |-> experience, education |-> education,
     skills |-> skills, ats_keywords |-> ats_keywords]

-----------------------------------------------------------------------------
(* ai_service.py: AIService._parse_ai_response *)

\* A mutant of fallback_experience: the original entries in reverse order
fallback_experience_reversed(original_request) ==
    [i \in 1..Len(original_request.experience) |->
        LET exp == original_request.experience[Len(original_request.experience) + 1 - i]
        IN ExperienceModel(Str(exp.company), Str(exp.role), Str(exp.start_date),
                           Str(exp.end_date), Str(exp.responsibilities), List(<<>>))]

\* for exp in original_request.experience: optimized_experience.append(...)
fallback_experience(original_request) ==
    [i \in 1..Len(original_request.experience) |->
        LET exp == original_request.experience[i]
        IN ExperienceModel(Str(exp.company), Str(exp.role), Str(exp.start_date),
                           Str(exp.end_date), Str(exp.responsibilities), List(<<>>))]

\* A mutant of ai_experience_entries: an absent achievements list is None
ai_experience_entries_none(ai_experience) ==
    [i \in 1..Len(ai_experience) |->
        LET exp_data == ai_experience[i]
        IN ExperienceModel(dict_get(exp_data, "company", Str("")),
                           dict_get(exp_data, "role", Str("")),
                           dict_get(exp_data, "start_date", Str("")),
                           dict_get(exp_data, "end_date", Str("")),
                           dict_get(exp_data, "responsibilities", Str("")),
                           dict_get(exp_data, "achievements", None))]

\* for exp_data in ai_experience: optimized_experience.append(...)
ai_experience_entries(ai_experience) ==
    [i \in 1..Len(ai_experience) |->
        LET exp_data == ai_experience[i]
        IN ExperienceModel(dict_get(exp_data, "company", Str("")),
                           dict_get(exp_data, "role", Str("")),
                           dict_get(exp_data, "start_date", Str("")),
                           dict_get(exp_data, "end_date", Str("")),
                           dict_get(exp_data, "responsibilities", Str("")),
                           dict_get(exp_data, "achievements", List(<<>>)))]

\* for edu in original_request.education: optimized_education.append(...)
fallback_education(original_request) ==
    [i \in 1..Len(original_request.education) |->
        LET edu == original_request.education[i]
        IN EducationModel(Str(edu.degree), Str(edu.institution), Str(edu.year))]

\* for edu_data in ai_education: optimized_education.append(...)
ai_education_entries(ai_education) ==
    [i \in 1..Len(ai_education) |->
        LET edu_data == ai_education[i]
        IN EducationModel(dict_get(edu_data, "degree", Str("")),
                          dict_get(edu_data, "institution", Str("")),
                          dict_get(edu_data, "year", Str("")))]

\* _parse_ai_response (lines 411-484); its "except KeyError" catches nothing
\* that .get raises
parse_ai_response(data, original_request) ==
    LET optimized_summary == dict_get(data, "optimized_summary",
                                      Str(original_request.summary))
        ai_experience == dict_get(data, "optimized_experience", List(<<>>))
        optimized_experience ==
            IF ~Truthy(ai_experience)
            THEN fallback_experience(original_request)
            ELSE ai_experience_entries(ai_experience.v)
        ai_education == dict_get(data, "optimized_education", List(<<>>))
        optimized_education ==
            IF ~Truthy(ai_education)
            THEN fallback_education(original_request)
            ELSE ai_education_entries(ai_education.v)
        optimized_skills == dict_get(data, "optimized_skills",
                                     List(original_request.skills))
    IN IF ~is_dict(data)
       THEN Raise("AttributeError", "object has no attribute 'get'")
       ELSE IF Truthy(ai_experience) /\ has_no_get(ai_experience)
       THEN Raise("AttributeError", "object has no attribute 'get'")
       ELSE IF Truthy(ai_education) /\ has_no_get(ai_education)
       THEN Raise("AttributeError", "object has no attribute 'get'")
       ELSE Return(OptimizedResumeData(optimized_summary, optimized_experience,
                                       optimized_education, optimized_skills,
                                       dict_get(data, "ats_keywords", List(<<>>))))

-----------------------------------------------------------------------------
(* The requests and the AI responses the normalizer is run on *)

OrigExperience ==
    <<[company |-> "Acme", role |-> "Engineer", start_date |-> "2019",
       end_date |-> "2021", responsibilities |-> "- Did X"],
      [company |-> "Globex", role |-> "Lead", start_date |-> "2021",
       end_date |-> "Present", responsibilities |-> "Led a team"],
      [company |-> "Initech", role |-> "Intern", start_date |-> "2018",
       end_date |-> "2019", responsibilities |-> ""],
      [company |-> "Hooli", role |-> "Manager", start_date |-> "2015",
       end_date |-> "2018", responsibilities |-> "Managed"]>>

OrigEducation ==
    <<[degree |-> "BSc", institution |-> "MIT", year |-> "2018"],
      [degree |-> "MSc", institution |-> "ETH", year |-> "2020"],
      [degree |-> "PhD", institution |-> "EPFL", year |-> ""],
      [degree |-> "MBA", institution |-> "INSEAD", year |-> "2023"]>>

PersonalInfo ==
    [full_name |-> "Jane Doe", email |-> "jane@example.com", phone |-> "555",
     location |-> "Paris", linkedin |-> None, portfolio |-> None]

ResumeRequest(n_experience, n_education) ==
    [personal_info |-> PersonalInfo,
     summary |-> "Original summary",
     skills |-> <<"Python", "SQL">>,
     experience |-> SubSeq(OrigExperience, 1, n_experience),
     education |-> SubSeq(OrigEducation, 1, n_education),
     job_description |-> "",
     template |-> "modern"]

OrigCounts == 0..(IF MaxOrigEntries < Len(OrigExperience)
                  THEN MaxOrigEntries ELSE Len(OrigExperience))

Requests == {ResumeRequest(n, m) : n \in OrigCounts, m \in OrigCounts}

TopKeys == {"optimized_summary", "optimized_experience", "optimized_education",
            "optimized_skills", "ats_keywords"}

ExpFields == {"company", "role", "start_date", "end_date", "responsibilities",
              "achievements"}

EduFields == {"degree", "institution", "year"}

AiExpFull ==
    [company |-> Str("Acme Corp"), role |-> Str("Senior Engineer"),
     start_date |-> Str("Jan 2019"), end_date |-> Str("Dec 2021"),
     responsibilities |-> Str("- Built X"),
     achievements |-> List(<<"Cut cost 20%">>)]

AiEduFull ==
    [degree |-> Str("B.Sc."), institution |-> Str("M.I.T."), year |-> Str("2018")]

\* The dict with the fields of full that are in keep
Restrict(full, keep) == [k \in (DOMAIN full \cap keep) |-> full[k]]

\* The subsets with none, one, all but one or all of the fields
EdgeSubsets(fields) ==
    {S \in SUBSET fields :
        Cardinality(S) \in {0, 1, Cardinality(fields) - 1, Cardinality(fields)}}

AiExpEntries == {Restrict(AiExpFull, S) : S \in EdgeSubsets(ExpFields)}

AiEduEntries == {Restrict(AiEduFull, S) : S \in SUBSET EduFields}

Absent == [t |-> "absent"]

\* A JSON object with the given values, without the keys whose value is Absent
Doc(summary, experience, education, skills, ats_keywords) ==
    LET full == [optimized_summary |-> summary,
                 optimized_experience |-> experience,
                 optimized_education |-> education,
                 optimized_skills |-> skills,
                 ats_keywords |-> ats_keywords]
    IN [k \in {key \in TopKeys : full[key] # Absent} |-> full[k]]

\* Every key absent, null, empty or given, independently
TopDocs ==
    {Doc(s, x, d, k, a) :
        s \in {Absent, None, Str(""), Str("X")},
        x \in {Absent, None, List(<<>>), List(<<AiExpFull>>)},
        d \in {Absent, None, List(<<>>), List(<<AiEduFull>>)},
        k \in {Absent, None, List(<<>>), List(<<"Go", "Rust">>)},
        a \in {Absent, None, List(<<>>), List(<<"kubernetes">>)}}

\* Non-empty entry lists whose entries lack subfields
EntryDocs ==
    {Doc(Absent, List(l), Absent, Absent, Absent) :
        l \in SeqsUpTo(AiExpEntries, MaxAiEntries) \ {<<>>}}
    \cup
    {Doc(Absent, Absent, List(l), Absent, Absent) :
        l \in SeqsUpTo(AiEduEntries, MaxAiEntries) \ {<<>>}}

Docs == TopDocs \cup EntryDocs

-----------------------------------------------------------------------------
(* ai_service.py: AIService._extract_json_from_response                     *)
(* The provider's text is a sequence of tokens: the code fence, the word   *)
(* json, a line break, a space, the text of one JSON document, and text     *)
(* that is no JSON.                                                         *)

\* Three backquotes
Fence == "<fence>"

JsonWord == "json"

JsonDoc == "{...}"

NotJson == "not json"

TextTokens == {Fence, JsonWord, "\n", " ", JsonDoc, NotJson}

\* ^ under re.MULTILINE: the start of the text or just after a line break
AtLineStart(s, i) == i = 1 \/ s[i - 1] = "\n"

\* $ under re.MULTILINE: the end of the text or just before a line break
AtLineEnd(s, i) == i = Len(s) \/ s[i + 1] = "\n"

\* \s*: the first position from i on that holds no whitespace
RECURSIVE skip_whitespace(_, _)
skip_whitespace(s, i) ==
    IF i <= Len(s) /\ s[i] \in Whitespace THEN skip_whitespace(s, i + 1) ELSE i

\* re.sub(r"^<fence>json\s*", "", content, flags=re.MULTILINE), from position i
RECURSIVE sub_fence_json(_, _)
sub_fence_json(s, i) ==
    IF i > Len(s) THEN <<>>
    ELSE IF AtLineStart(s, i) /\ s[i] = Fence /\ i < Len(s) /\ s[i + 1] = JsonWord
         THEN sub_fence_json(s, skip_whitespace(s, i + 2))
         ELSE <<s[i]>> \o sub_fence_json(s, i + 1)

\* re.sub(r"^<fence>\s*", "", content, flags=re.MULTILINE), from position i
RECURSIVE sub_fence_open(_, _)
sub_fence_open(s, i) ==
    IF i > Len(s) THEN <<>>
    ELSE IF AtLineStart(s, i) /\ s[i] = Fence
         THEN sub_fence_open(s, skip_whitespace(s, i + 1))
         ELSE <<s[i]>> \o sub_fence_open(s, i + 1)

\* re.sub(r"<fence>$", "", content, flags=re.MULTILINE), from position i
RECURSIVE sub_fence_close(_, _)
sub_fence_close(s, i) ==
    IF i > Len(s) THEN <<>>
    ELSE IF s[i] = Fence /\ AtLineEnd(s, i)
         THEN sub_fence_close(s, i + 1)
         ELSE <<s[i]>> \o sub_fence_close(s, i + 1)

\* A mutant of strip_fences: content.strip() alone
strip_fences_only_trim(content) == str_strip(content, Whitespace)

\* The three substitutions and content.strip()
strip_fences(content) ==
    str_strip(sub_fence_close(sub_fence_open(sub_fence_json(content, 1), 1), 1),
              Whitespace)

\* json.loads accepts the text: one JSON document (strip() has removed the
\* whitespace around it)
is_json(text) == text = <<JsonDoc>>

\* A mutant of extract_json_from_response: text that is no JSON yields {}
extract_json_lenient(content, doc) ==
    IF is_json(strip_fences(content))
    THEN Return(doc)
    ELSE Return([k \in {} |-> None])

\* doc is the value of the JSON document in content
extract_json_from_response(content, doc) ==
    IF is_json(strip_fences(content))
    THEN Return(doc)
    ELSE Raise("AIServiceError", "Failed to parse AI response as JSON")

-----------------------------------------------------------------------------
(* ai_service.py: _build_optimization_prompt and the request of every       *)
(* provider. The prompt is a sequence of pieces: the literal text, cut at   *)
(* the substitutions and before each numbered requirement and the response  *)
(* format, and the substituted strings.                                     *)

\* A mutant of job_context: without "if request.job_description"
job_context_always(request_) ==
    <<"\nTARGET JOB DESCRIPTION:\n">>
    \o <<request_.job_description>>
    \o <<"\n">>

\* job_context of _build_optimization_prompt (lines 105-110)
job_context(request_) ==
    IF request_.job_description # ""
    THEN <<"\nTARGET JOB DESCRIPTION:\n">>
         \o <<request_.job_description>>
         \o <<"\n">>
    ELSE <<>>

\* A mutant of experience_context: enumerate without its start of 1
experience_context_from_zero(request_) ==
    Concat([i \in 1..Len(request_.experience) |->
        LET exp == request_.experience[i]
        IN <<"\nEXPERIENCE ">>
           \o <<ToString(i - 1)>>
           \o <<":\nCompany: ">>
           \o <<exp.company>>
           \o <<"\nRole: ">>
           \o <<exp.role>>
           \o <<"\nPeriod: ">>
           \o <<exp.start_date>>
           \o <<" - ">>
           \o <<exp.end_date>>
           \o <<"\nResponsibilities: ">>
           \o <<exp.responsibilities>>
           \o <<"\n">>])

\* experience_context of _build_optimization_prompt (lines 112-120)
experience_context(request_) ==
    Concat([i \in 1..Len(request_.experience) |->
        LET exp == request_.experience[i]
        IN <<"\nEXPERIENCE ">>
           \o <<ToString(i)>>
           \o <<":\nCompany: ">>
           \o <<exp.company>>
           \o <<"\nRole: ">>
           \o <<exp.role>>
           \o <<"\nPeriod: ">>
           \o <<exp.start_date>>
           \o <<" - ">>
           \o <<exp.end_date>>
           \o <<"\nResponsibilities: ">>
           \o <<exp.responsibilities>>
           \o <<"\n">>])

\* education_context (lines 122-126)
education_context(request_) ==
    Concat([i \in 1..Len(request_.education) |->
        LET edu == request_.education[i]
        IN <<"\n- ">>
           \o <<edu.degree>>
           \o <<", ">>
           \o <<edu.institution>>
           \o <<", ">>
           \o <<edu.year>>
           \o <<"\n">>])

\* skills_context (line 128)
skills_context(request_) ==
    IF request_.skills # <<>>
    THEN str_join(<<", ">>, [i \in 1..Len(request_.skills) |-> <<request_.skills[i]>>])
    ELSE <<"Not provided">>

\* The prompt of _build_optimization_prompt (lines 130-218); the response
\* requirements are cut after their headings, the response format before
\* and after its first sentence
build_optimization_prompt(request_) ==
    <<"\nYou are an expert resume writer and career coach with 15+ years of experience.\nYour task is to optimize a resume to make it highly effective, ATS-friendly, and compelling to hiring managers.\n\n">>
       \o job_context(request_)
       \o <<"\n\nCANDIDATE INFORMATION:\n\nPERSONAL DETAILS:\n- Name: ">>
       \o <<request_.personal_info.full_name>>
       \o <<"\n- Email: ">>
       \o <<request_.personal_info.email>>
       \o <<"\n- Phone: ">>
       \o <<request_.personal_info.phone>>
       \o <<"\n- Location: ">>
       \o <<request_.personal_info.location>>
       \o <<"\n">>
       \o (IF Truthy(request_.personal_info.linkedin)
        THEN <<"- LinkedIn: ", request_.personal_info.linkedin.v>> ELSE <<>>)
       \o <<"\n">>
       \o (IF Truthy(request_.personal_info.portfolio)
        THEN <<"- Portfolio: ", request_.personal_info.portfolio.v>> ELSE <<>>)
       \o <<"\n\nCURRENT SUMMARY:\n">>
       \o <<request_.summary>>
       \o <<"\n\nSKILLS:\n">>
       \o skills_context(request_)
       \o <<"\n\nEXPERIENCE:">>
       \o experience_context(request_)
       \o <<"\n\nEDUCATION:">>
       \o education_context(request_)
       \o <<"\n\n---\n\nOPTIMIZATION REQUIREMENTS:">>
       \o <<"\n\n1. PROFESSIONAL SUMMARY:">>
       \o <<"\n   - Rewrite to be impactful, concise, and tailored to the target role\n   - Include relevant keywords from the job description\n   - Highlight unique value proposition\n   - Keep it 3-5 lines maximum">>
       \o <<"\n\n2. WORK EXPERIENCE:">>
       \o <<"\n   - Rewrite each role using action verbs and the STAR method\n   - Quantify achievements with specific metrics (%, $, numbers)\n   - Focus on impact and results, not just responsibilities\n   - Include 3-5 bullet points per role with measurable outcomes\n   - Optimize for ATS keywords relevant to the target job">>
       \o <<"\n\n3. SKILLS OPTIMIZATION:">>
       \o <<"\n   - Reorganize skills into logical categories\n   - Add relevant keywords from job description that match candidate's background\n   - Remove redundant or outdated skills\n   - Prioritize in-demand technical and soft skills">>
       \o <<"\n\n4. ATS OPTIMIZATION:">>
       \o <<"\n   - Extract and incorporate relevant keywords from the job description\n   - Use standard job titles and industry terminology\n   - Ensure proper keyword density without keyword stuffing">>
       \o <<"\n\n5. GENERAL IMPROVEMENTS:">>
       \o <<"\n   - Fix any grammar, spelling, or clarity issues\n   - Maintain professional tone throughout\n   - Ensure consistency in formatting and style\n   - Remove clich[U+00C3][U+00A9]s and generic phrases">>
       \o <<"\n\n---\n\nRESPONSE FORMAT:\n">>
       \o <<"Return ONLY valid JSON">>
       \o <<" in this exact structure (no markdown, no explanations):\n\n{\n    \"optimized_summary\": \"The rewritten professional summary\",\n    \"optimized_experience\": [\n        {\n            \"company\": \"Company Name\",\n            \"role\": \"Job Title\",\n            \"start_date\": \"Start Date\",\n            \"end_date\": \"End Date\",\n            \"responsibilities\": \"Rewritten responsibilities and achievements as bullet points with metrics\",\n            \"achievements\": [\"Achievement 1 with metric\", \"Achievement 2 with metric\", \"Achievement 3 with metric\"]\n        }\n    ],\n    \"optimized_education\": [\n        {\n            \"degree\": \"Degree Name\",\n            \"institution\": \"Institution Name\",\n            \"year\": \"Year\"\n        }\n    ],\n    \"optimized_skills\": [\"Skill 1\", \"Skill 2\", \"Skill 3\", ...],\n    \"ats_keywords\": [\"keyword1\", \"keyword2\", \"keyword3\", ...]\n}\n">>

\* The system message of _call_openai_api
OpenAISystem == "You are an expert resume writer. Return ONLY valid JSON, no markdown formatting."

\* system_prompt of _call_claude_api
ClaudeSystem == "You are an expert resume writer. Return ONLY valid JSON."

\* system_instruction of _call_gemini_api
GeminiSystem == "You are an expert resume writer. Return ONLY valid JSON, no markdown formatting, no explanations."

\* client.post(url, json=payload) of _call_openai_api under
\* httpx.AsyncClient(timeout=60.0); temperature is the decimal as written
openai_request(prompt) ==
    [method |-> "POST", url |-> "OPENAI_BASE_URL/chat/completions", timeout |-> 60,
     json |-> [model |-> "OPENAI_MODEL",
               messages |-> <<[role |-> "system", content |-> <<OpenAISystem>>],
                              [role |-> "user", content |-> prompt]>>,
               temperature |-> "0.7",
               max_tokens |-> 4000,
               response_format |-> [type |-> "json_object"]]]

\* client.post(url, json=payload) of _call_claude_api
claude_request(prompt) ==
    [method |-> "POST", url |-> "https://api.anthropic.com/v1/messages", timeout |-> 60,
     json |-> [model |-> "ANTHROPIC_MODEL",
               max_tokens |-> 4000,
               system |-> <<ClaudeSystem>>,
               messages |-> <<[role |-> "user", content |-> prompt]>>]]

\* client.post(url, params=params, json=payload) of _call_gemini_api
gemini_request(prompt) ==
    [method |-> "POST",
     url |-> "https://generativelanguage.googleapis.com/v1beta/models/GEMINI_MODEL:generateContent",
     timeout |-> 60,
     json |-> [contents |-> <<[parts |-> <<[text |-> <<GeminiSystem, "\n\n">> \o prompt]>>]>>,
               generationConfig |-> [temperature |-> "0.7",
                                     maxOutputTokens |-> 4000,
                                     responseMimeType |-> "application/json"]]]

\* The request the selected provider's _call_ coroutine sends
provider_request(provider, prompt) ==
    CASE provider = "gemini" -> gemini_request(prompt)
      [] provider = "claude" -> claude_request(prompt)
      [] provider = "openai" -> openai_request(prompt)

-----------------------------------------------------------------------------
(* ai_service.py: AIService.__init__ and the provider selection of          *)
(* AIService.optimize_resume                                                *)

Keys == {"", "secret"}

Providers == {"gemini", "claude", "openai"}

ProviderName(p) ==
    CASE p = "gemini" -> "Gemini"
      [] p = "claude" -> "Claude"
      [] p = "openai" -> "OpenAI"

\* A mutant of auto_detect: priority Claude > Gemini
auto_detect_claude_first(claude, gemini, anthropic_key, gemini_key) ==
    IF ~claude /\ ~gemini
    THEN IF anthropic_key # "" THEN [use_claude |-> TRUE, use_gemini |-> gemini]
         ELSE IF gemini_key # "" THEN [use_claude |-> claude, use_gemini |-> TRUE]
         ELSE [use_claude |-> claude, use_gemini |-> gemini]
    ELSE [use_claude |-> claude, use_gemini |-> gemini]

\* if not self.use_claude and not self.use_gemini: ... (lines 52-56)
auto_detect(claude, gemini, anthropic_key, gemini_key) ==
    IF ~claude /\ ~gemini
    THEN IF gemini_key # "" THEN [use_claude |-> claude, use_gemini |-> TRUE]
         ELSE IF anthropic_key # "" THEN [use_claude |-> TRUE, use_gemini |-> gemini]
         ELSE [use_claude |-> claude, use_gemini |-> gemini]
    ELSE [use_claude |-> claude, use_gemini |-> gemini]

\* A mutant of select_provider: the flags alone select, whatever the keys
select_provider_by_flag ==
    IF use_gemini THEN "gemini"
    ELSE IF use_claude THEN "claude"
    ELSE IF openai_api_key # "" THEN "openai"
    ELSE "none"

\* A mutant of select_provider: the Claude branch is tested first
select_provider_claude_first ==
    IF use_claude /\ anthropic_api_key # "" THEN "claude"
    ELSE IF use_gemini /\ gemini_api_key # "" THEN "gemini"
    ELSE IF openai_api_key # "" THEN "openai"
    ELSE "none"

\* The if/elif chain of optimize_resume (lines 83-90)
select_provider ==
    IF use_gemini /\ gemini_api_key # "" THEN "gemini"
    ELSE IF use_claude /\ anthropic_api_key # "" THEN "claude"
    ELSE IF openai_api_key # "" THEN "openai"
    ELSE "none"

AIServiceInit ==
    /\ ai_pc = "new"
    /\ LET flags == auto_detect(arg_use_claude, arg_use_gemini,
                                ANTHROPIC_API_KEY, GEMINI_API_KEY)
       IN /\ use_claude' = flags.use_claude
          /\ use_gemini' = flags.use_gemini
    /\ openai_api_key' = OPENAI_API_KEY
    /\ anthropic_api_key' = ANTHROPIC_API_KEY
    /\ gemini_api_key' = GEMINI_API_KEY
    /\ IF OPENAI_API_KEY = "" /\ ANTHROPIC_API_KEY = "" /\ GEMINI_API_KEY = ""
       THEN /\ ai_pc' = "raised"
            /\ ai_error' = [type |-> "AIServiceError", msg |-> "No API key configured"]
       ELSE /\ ai_pc' = "ready"
            /\ UNCHANGED ai_error
    /\ UNCHANGED <<cfgVars, request, posts, http_calls, reply, response_data, ai_result, notAiVars>>

\* optimize_resume up to the await of the provider's POST
OptimizeResume ==
    /\ ai_pc = "ready"
    /\ IF select_provider = "none"
       THEN /\ ai_pc' = "raised"
            /\ ai_error' = [type |-> "AIServiceError",
                            msg |-> "No valid API key available for the selected service"]
            /\ UNCHANGED <<posts, http_calls>>
       ELSE /\ ai_pc' = "awaiting"
            /\ posts' = Append(posts, select_provider)
            /\ http_calls' = Append(http_calls,
                                    provider_request(select_provider,
                                        build_optimization_prompt(request)))
            /\ UNCHANGED ai_error
    /\ UNCHANGED <<cfgVars, selfVars, request, reply, response_data, ai_result, notAiVars>>

-----------------------------------------------------------------------------
(* ai_service.py: _call_openai_api, _call_claude_api, _call_gemini_api from  *)
(* the reply on                                                              *)

NoReply == [http |-> "none"]

\* httpx.HTTPError: a timeout, a network failure, a non-2xx status
HttpFailures == {[http |-> "timeout"], [http |-> "network"], [http |-> "status 500"]}

\* A 2xx body: "no_list" lacks choices / content / candidates, "empty_list"
\* has it empty, "no_text" lacks the text below its first entry
BadEnvelopes == {[http |-> "2xx", envelope |-> e] :
                    e \in {"no_list", "empty_list", "no_text"}}

AiDocs == {Doc(Str("X"), Absent, Absent, Absent, Absent),
           Doc(Str("Y"), List(<<AiExpFull>>), List(<<AiEduFull>>),
               List(<<"Go">>), List(<<"kubernetes">>))}

\* A text between a leading fence line, with or without a tag, and a
\* trailing fence line
Wrapped(tag, text) == <<Fence>> \o tag \o <<"\n">> \o text \o <<"\n", Fence>>

\* One JSON document with the whitespace JSON allows around it
JsonTexts == {<<JsonDoc>>, <<" ", JsonDoc>>, <<JsonDoc, "\n">>}

FenceTags == {<<>>, <<JsonWord>>}

WrappedTexts == {Wrapped(tag, text) : tag \in FenceTags,
                                      text \in JsonTexts \cup {<<NotJson>>}}

TextReplies ==
    {[http |-> "2xx", envelope |-> "text", content |-> c, doc |-> d] :
        c \in SeqsUpTo(TextTokens, MaxTextLen) \cup WrappedTexts, d \in AiDocs}

\* A 2xx body of another shape: "not_object" is a JSON array, "null_text"
\* has null where the text is
WrongTypedEnvelopes == {[http |-> "2xx", envelope |-> e] :
                           e \in {"not_object", "null_text"}}

\* JSON documents that are no object of lists of objects: an array, an
\* object whose experience is a list of strings, an object whose education
\* is a string
WrongTypedDocs == {List(<<>>),
                   Doc(Absent, List(<<Str("Acme")>>), Absent, Absent, Absent),
                   Doc(Absent, Absent, Str("BSc"), Absent, Absent)}

WrongTypedTexts ==
    {[http |-> "2xx", envelope |-> "text", content |-> <<JsonDoc>>, doc |-> d] :
        d \in WrongTypedDocs}

Replies == HttpFailures \cup BadEnvelopes \cup TextReplies
               \cup WrongTypedEnvelopes \cup WrongTypedTexts

\* A mutant of call_api: without the test of Gemini's candidates
call_api_no_candidates_test(provider, r) ==
    IF r.http # "2xx"
    THEN Raise("AIServiceError", ProviderName(provider) \o " API error: " \o r.http)
    ELSE IF r.envelope = "not_object"
    THEN Raise("TypeError", "list indices must be integers or slices, not str")
    ELSE IF r.envelope = "null_text"
    THEN Raise("TypeError", "expected string or bytes-like object")
    ELSE IF r.envelope # "text"
    THEN Raise("AIServiceError", "Invalid " \o ProviderName(provider) \o " API response")
    ELSE extract_json_from_response(r.content, r.doc)

\* A mutant of call_api: a failed POST counts as an empty JSON object
call_api_ignore_failure(provider, r) ==
    IF r.http # "2xx"
    THEN Return([k \in {} |-> None])
    ELSE IF provider = "gemini" /\ r.envelope \in {"no_list", "empty_list", "not_object"}
    THEN Raise("AIServiceError", "Empty response from Gemini API")
    ELSE IF r.envelope = "not_object"
    THEN Raise("TypeError", "list indices must be integers or slices, not str")
    ELSE IF r.envelope = "null_text"
    THEN Raise("TypeError", "expected string or bytes-like object")
    ELSE IF r.envelope # "text"
    THEN Raise("AIServiceError", "Invalid " \o ProviderName(provider) \o " API response")
    ELSE extract_json_from_response(r.content, r.doc)

\* What the _call_<provider>_api coroutine does with the reply r; the message
\* of an httpx.HTTPError e ends with str(e), here the kind of failure. The
\* handlers catch httpx.HTTPError, KeyError and IndexError: the TypeError of
\* subscripting a list with a string, and the one re.sub raises in
\* _extract_json_from_response on a text that is None, pass through
call_api(provider, r) ==
    IF r.http # "2xx"
    THEN Raise("AIServiceError", ProviderName(provider) \o " API error: " \o r.http)
    ELSE IF provider = "gemini" /\ r.envelope \in {"no_list", "empty_list", "not_object"}
    THEN Raise("AIServiceError", "Empty response from Gemini API")
    ELSE IF r.envelope = "not_object"
    THEN Raise("TypeError", "list indices must be integers or slices, not str")
    ELSE IF r.envelope = "null_text"
    THEN Raise("TypeError", "expected string or bytes-like object")
    ELSE IF r.envelope # "text"
    THEN Raise("AIServiceError", "Invalid " \o ProviderName(provider) \o " API response")
    ELSE extract_json_from_response(r.content, r.doc)

\* optimize_resume from the provider's reply to its return
ProviderReply ==
    /\ ai_pc = "awaiting"
    /\ \E r \in Replies :
        LET called == call_api(posts[Len(posts)], r)
            parsed == parse_ai_response(called.value, request)
        IN /\ reply' = r
           /\ IF called.raised
              THEN /\ ai_pc' = "raised"
                   /\ ai_error' = [type |-> called.type, msg |-> called.msg]
                   /\ UNCHANGED <<response_data, ai_result>>
              ELSE /\ response_data' = called.value
                   /\ IF parsed.raised
                      THEN /\ ai_pc' = "raised"
                           /\ ai_error' = [type |-> parsed.type, msg |-> parsed.msg]
                           /\ UNCHANGED ai_result
                      ELSE /\ ai_pc' = "returned"
                           /\ ai_result' = parsed.value
                           /\ UNCHANGED ai_error
    /\ UNCHANGED <<cfgVars, selfVars, request, posts, http_calls, notAiVars>>

\* _parse_ai_response called on its own
ParseAiResponse ==
    /\ ai_pc = "parse"
    /\ LET parsed == parse_ai_response(response_data, request)
       IN IF parsed.raised
          THEN /\ ai_pc' = "raised"
               /\ ai_error' = [type |-> parsed.type, msg |-> parsed.msg]
               /\ UNCHANGED ai_result
          ELSE /\ ai_pc' = "returned"
               /\ ai_result' = parsed.value
               /\ UNCHANGED ai_error
    /\ UNCHANGED <<cfgVars, selfVars, request, posts, http_calls, reply, response_data, notAiVars>>

-----------------------------------------------------------------------------
(* resume_builder.py: ResumeBuilder                                         *)
(* The HTML is a sequence of pieces: the literal markup between two         *)
(* substitutions (its line breaks and indentation dropped), the substituted *)
(* strings, and the characters of the bullet texts.                         *)

TEMPLATES ==
    [modern  |-> [primary_color |-> "#2563eb", secondary_color |-> "#64748b",
                  font_family |-> "'Segoe UI', Tahoma, Geneva, Verdana, sans-serif",
                  section_spacing |-> "24px"],
     classic |-> [primary_color |-> "#1f2937", secondary_color |-> "#4b5563",
                  font_family |-> "Georgia, 'Times New Roman', serif",
                  section_spacing |-> "20px"],
     minimal |-> [primary_color |-> "#000000", secondary_color |-> "#666666",
                  font_family |-> "'Helvetica Neue', Helvetica, Arial, sans-serif",
                  section_spacing |-> "16px"]]

\* A mutant of template_config: self.TEMPLATES[template]
template_config_strict(template) ==
    IF template \in DOMAIN TEMPLATES
    THEN Return(TEMPLATES[template])
    ELSE Raise("KeyError", template)

\* self.TEMPLATES.get(template, self.TEMPLATES["modern"])
template_config(template) ==
    IF template \in DOMAIN TEMPLATES
    THEN Return(TEMPLATES[template])
    ELSE Return(TEMPLATES["modern"])

\* The bullet glyph
Bullet == "U+2022"

Markers == {Bullet, "-"}

\* One entry of contact_items: the span of lines 192, 197, 202, 207, 213
contact_item(glyph, text, config) ==
    <<"<span style=\"color: ", config.secondary_color, glyph, text, "</span>">>

build_header(personal_info, config) ==
    LET contact_items ==
            <<contact_item(";\">U+1F4E7 ", personal_info.email, config),
              contact_item(";\">U+1F4F1 ", personal_info.phone, config),
              contact_item(";\">U+1F4CD ", personal_info.location, config)>>
            \o (IF Truthy(personal_info.linkedin)
                THEN <<contact_item(";\">U+1F4BC ", personal_info.linkedin.v, config)>>
                ELSE <<>>)
            \o (IF Truthy(personal_info.portfolio)
                THEN <<contact_item(";\">U+1F310 ", personal_info.portfolio.v, config)>>
                ELSE <<>>)
        contact_html == str_join(<<" &nbsp;|&nbsp; ">>, contact_items)
    IN <<"<!-- Header Section --><header style=\"text-align: center; margin-bottom: ">>
       \o <<config.section_spacing>>
       \o <<"; padding-bottom: 24px; border-bottom: 2px solid ">>
       \o <<config.primary_color>>
       \o <<";\"><h1 style=\"margin: 0 0 12px 0; font-size: 32px; font-weight: 700; color: ">>
       \o <<config.primary_color>>
       \o <<"; letter-spacing: -0.5px;\">">>
       \o <<personal_info.full_name>>
       \o <<"</h1><div style=\"font-size: 14px; color: ">>
       \o <<config.secondary_color>>
       \o <<";\">">>
       \o contact_html
       \o <<"</div></header>">>

\* A mutant of build_summary: the heading in the primary color of "modern"
build_summary_modern_color(summary, config) ==
    <<"<!-- Summary Section --><section style=\"margin-bottom: ">>
    \o <<config.section_spacing>>
    \o <<";\"><h2 style=\"font-size: 18px; font-weight: 600; color: ">>
    \o <<TEMPLATES.modern.primary_color>>
    \o <<"; margin: 0 0 12px 0; text-transform: uppercase; letter-spacing: 1px; border-bottom: 1px solid #e5e7eb; padding-bottom: 8px;\">Professional Summary</h2><p style=\"margin: 0; color: #374151; font-size: 14px; text-align: justify;\">">>
    \o <<summary>>
    \o <<"</p></section>">>

build_summary(summary, config) ==
    <<"<!-- Summary Section --><section style=\"margin-bottom: ">>
    \o <<config.section_spacing>>
    \o <<";\"><h2 style=\"font-size: 18px; font-weight: 600; color: ">>
    \o <<config.primary_color>>
    \o <<"; margin: 0 0 12px 0; text-transform: uppercase; letter-spacing: 1px; border-bottom: 1px solid #e5e7eb; padding-bottom: 8px;\">Professional Summary</h2><p style=\"margin: 0; color: #374151; font-size: 14px; text-align: justify;\">">>
    \o <<summary>>
    \o <<"</p></section>">>

\* A mutant of build_skills_section: without "if not skills: return"
build_skills_section_always(skills, config) ==
    LET skills_html ==
            Concat([i \in 1..Len(skills) |->
                <<"<span style=\"display: inline-block; background-color: #f3f4f6; color: #374151; padding: 6px 14px; margin: 4px; border-radius: 4px; font-size: 13px; font-weight: 500;\">">>
                \o <<skills[i]>>
                \o <<"</span>">>])
    IN <<"<!-- Skills Section --><section style=\"margin-bottom: ">>
            \o <<config.section_spacing>>
            \o <<";\"><h2 style=\"font-size: 18px; font-weight: 600; color: ">>
            \o <<config.primary_color>>
            \o <<"; margin: 0 0 12px 0; text-transform: uppercase; letter-spacing: 1px; border-bottom: 1px solid #e5e7eb; padding-bottom: 8px;\">Skills</h2><div style=\"line-height: 2;\">">>
            \o skills_html
            \o <<"</div></section>">>

build_skills_section(skills, config) ==
    LET skills_html ==
            Concat([i \in 1..Len(skills) |->
                <<"<span style=\"display: inline-block; background-color: #f3f4f6; color: #374151; padding: 6px 14px; margin: 4px; border-radius: 4px; font-size: 13px; font-weight: 500;\">">>
                \o <<skills[i]>>
                \o <<"</span>">>])
    IN IF skills = <<>> THEN <<>>
       ELSE <<"<!-- Skills Section --><section style=\"margin-bottom: ">>
            \o <<config.section_spacing>>
            \o <<";\"><h2 style=\"font-size: 18px; font-weight: 600; color: ">>
            \o <<config.primary_color>>
            \o <<"; margin: 0 0 12px 0; text-transform: uppercase; letter-spacing: 1px; border-bottom: 1px solid #e5e7eb; padding-bottom: 8px;\">Skills</h2><div style=\"line-height: 2;\">">>
            \o skills_html
            \o <<"</div></section>">>

\* str.split("\n")
RECURSIVE split_lines(_)
split_lines(s) ==
    IF \E i \in 1..Len(s) : s[i] = "\n"
    THEN LET i == CHOOSE k \in 1..Len(s) :
                      s[k] = "\n" /\ \A j \in 1..(k - 1) : s[j] # "\n"
         IN <<SubSeq(s, 1, i - 1)>> \o split_lines(SubSeq(s, i + 1, Len(s)))
    ELSE <<s>>

\* The characters of "<strong>" and of "</strong>"
StrongOpen == <<"<", "s", "t", "r", "o", "n", "g", ">">>

StrongClose == <<"<", "/", "s", "t", "r", "o", "n", "g", ">">>

\* The body of "for line in lines" (lines 288-302 and 367-377)
line_bullet(raw_line) ==
    LET line == str_strip(raw_line, Whitespace)
        cleaned == str_strip(str_lstrip(line, Markers), Whitespace)
    IN IF line # <<>> /\ line[1] \notin Markers
       THEN IF line[Len(line)] = ":"
            THEN <<StrongOpen \o line \o StrongClose>>
            ELSE <<line>>
       ELSE IF line # <<>> /\ cleaned # <<>> THEN <<cleaned>>
       ELSE <<>>

\* A mutant of responsibility_bullets: the text is always one bullet
responsibility_bullets_paragraph(responsibilities) == <<responsibilities>>

\* bullet_points as derived from the responsibilities (lines 282-305, 361-379)
responsibility_bullets(responsibilities) ==
    IF Markers \cap Range(responsibilities) # {}
    THEN LET lines == split_lines(responsibilities)
         IN Concat([i \in 1..Len(lines) |-> line_bullet(lines[i])])
    ELSE <<responsibilities>>

\* A mutant of add_achievements: bullet_points.append(achievement)
RECURSIVE add_achievements_appended(_, _)
add_achievements_appended(bullet_points, achievements) ==
    IF achievements = <<>> THEN bullet_points
    ELSE add_achievements_appended(
             IF Head(achievements) \notin Range(bullet_points)
             THEN Append(bullet_points, Head(achievements))
             ELSE bullet_points,
             Tail(achievements))

\* for achievement in exp.achievements: if achievement not in bullet_points:
\*     bullet_points.insert(0, achievement)
RECURSIVE add_achievements(_, _)
add_achievements(bullet_points, achievements) ==
    IF achievements = <<>> THEN bullet_points
    ELSE add_achievements(
             IF Head(achievements) \notin Range(bullet_points)
             THEN <<Head(achievements)>> \o bullet_points
             ELSE bullet_points,
             Tail(achievements))

\* bullet_points of one entry in _build_experience_section
experience_bullets(exp) ==
    add_achievements(responsibility_bullets(exp.responsibilities), exp.achievements)

\* "for point in bullet_points: if point.strip(): ..." of _build_experience_section
bullets_html(bullet_points) ==
    Concat([i \in 1..Len(bullet_points) |->
        LET point == str_strip(bullet_points[i], Whitespace)
        IN IF point # <<>>
           THEN <<"<li style=\"margin-bottom: 6px; color: #374151; font-size: 14px;\">">>
                \o point
                \o <<"</li>">>
           ELSE <<>>])

\* The same loop in _build_experience_section_from_request
bullets_html_from_request(bullet_points) ==
    Concat([i \in 1..Len(bullet_points) |->
        LET point == str_strip(bullet_points[i], Whitespace)
        IN IF point # <<>>
           THEN <<"<li style=\"margin-bottom: 6px; color: #374151; font-size: 14px;\">">>
                \o point
                \o <<"</li>">>
           ELSE <<>>])

build_experience_section(experience, config) ==
    LET experience_html ==
            Concat([i \in 1..Len(experience) |->
                LET exp == experience[i]
                    achievements_html == bullets_html(experience_bullets(exp))
                IN <<"<!-- Experience Item --><div style=\"margin-bottom: 20px;\"><div style=\"display: flex; justify-content: space-between; align-items: baseline; margin-bottom: 4px;\"><h3 style=\"font-size: 16px; font-weight: 600; color: #1f2937; margin: 0;\">">>
                   \o <<exp.role>>
                   \o <<"</h3><span style=\"font-size: 13px; color: ">>
                   \o <<config.secondary_color>>
                   \o <<"; font-weight: 500;\">">>
                   \o <<exp.start_date>>
                   \o <<" U+2013 ">>
                   \o <<exp.end_date>>
                   \o <<"</span></div><div style=\"font-size: 14px; font-weight: 600; color: ">>
                   \o <<config.primary_color>>
                   \o <<"; margin-bottom: 8px;\">">>
                   \o <<exp.company>>
                   \o <<"</div><ul style=\"margin: 0; padding-left: 20px;\">">>
                   \o achievements_html
                   \o <<"</ul></div>">>])
    IN IF experience = <<>> THEN <<>>
       ELSE <<"<!-- Experience Section --><section style=\"margin-bottom: ">>
            \o <<config.section_spacing>>
            \o <<";\"><h2 style=\"font-size: 18px; font-weight: 600; color: ">>
            \o <<config.primary_color>>
            \o <<"; margin: 0 0 16px 0; text-transform: uppercase; letter-spacing: 1px; border-bottom: 1px solid #e5e7eb; padding-bottom: 8px;\">Work Experience</h2>">>
            \o experience_html
            \o <<"</section>">>

build_experience_section_from_request(experience, config) ==
    LET experience_html ==
            Concat([i \in 1..Len(experience) |->
                LET exp == experience[i]
                    achievements_html ==
                        bullets_html_from_request(
                            responsibility_bullets(exp.responsibilities))
                IN <<"<!-- Experience Item --><div style=\"margin-bottom: 20px;\"><div style=\"display: flex; justify-content: space-between; align-items: baseline; margin-bottom: 4px;\"><h3 style=\"font-size: 16px; font-weight: 600; color: #1f2937; margin: 0;\">">>
                   \o <<exp.role>>
                   \o <<"</h3><span style=\"font-size: 13px; color: ">>
                   \o <<config.secondary_color>>
                   \o <<"; font-weight: 500;\">">>
                   \o <<exp.start_date>>
                   \o <<" U+2013 ">>
                   \o <<exp.end_date>>
                   \o <<"</span></div><div style=\"font-size: 14px; font-weight: 600; color: ">>
                   \o <<config.primary_color>>
                   \o <<"; margin-bottom: 8px;\">">>
                   \o <<exp.company>>
                   \o <<"</div><ul style=\"margin: 0; padding-left: 20px;\">">>
                   \o achievements_html
                   \o <<"</ul></div>">>])
    IN IF experience = <<>> THEN <<>>
       ELSE <<"<!-- Experience Section --><section style=\"margin-bottom: ">>
            \o <<config.section_spacing>>
            \o <<";\"><h2 style=\"font-size: 18px; font-weight: 600; color: ">>
            \o <<config.primary_color>>
            \o <<"; margin: 0 0 16px 0; text-transform: uppercase; letter-spacing: 1px; border-bottom: 1px solid #e5e7eb; padding-bottom: 8px;\">Work Experience</h2>">>
            \o experience_html
            \o <<"</section>">>

build_education_section(education, config) ==
    LET education_html ==
            Concat([i \in 1..Len(education) |->
                LET edu == education[i]
                IN <<"<div style=\"margin-bottom: 12px;\"><div style=\"display: flex; justify-content: space-between; align-items: baseline;\"><div><span style=\"font-size: 15px; font-weight: 600; color: #1f2937;\">">>
                   \o <<edu.degree>>
                   \o <<"</span><span style=\"color: ">>
                   \o <<config.secondary_color>>
                   \o <<"; font-size: 14px; margin-left: 8px;\">| ">>
                   \o <<edu.institution>>
                   \o <<"</span></div><span style=\"font-size: 13px; color: ">>
                   \o <<config.secondary_color>>
                   \o <<"; font-weight: 500;\">">>
                   \o <<edu.year>>
                   \o <<"</span></div></div>">>])
    IN IF education = <<>> THEN <<>>
       ELSE <<"<!-- Education Section --><section style=\"margin-bottom: ">>
            \o <<config.section_spacing>>
            \o <<";\"><h2 style=\"font-size: 18px; font-weight: 600; color: ">>
            \o <<config.primary_color>>
            \o <<"; margin: 0 0 12px 0; text-transform: uppercase; letter-spacing: 1px; border-bottom: 1px solid #e5e7eb; padding-bottom: 8px;\">Education</h2>">>
            \o education_html
            \o <<"</section>">>

build_education_section_from_request(education, config) ==
    LET education_html ==
            Concat([i \in 1..Len(education) |->
                LET edu == education[i]
                IN <<"<div style=\"margin-bottom: 12px;\"><div style=\"display: flex; justify-content: space-between; align-items: baseline;\"><div><span style=\"font-size: 15px; font-weight: 600; color: #1f2937;\">">>
                   \o <<edu.degree>>
                   \o <<"</span><span style=\"color: ">>
                   \o <<config.secondary_color>>
                   \o <<"; font-size: 14px; margin-left: 8px;\">| ">>
                   \o <<edu.institution>>
                   \o <<"</span></div><span style=\"font-size: 13px; color: ">>
                   \o <<config.secondary_color>>
                   \o <<"; font-weight: 500;\">">>
                   \o <<edu.year>>
                   \o <<"</span></div></div>">>])
    IN IF education = <<>> THEN <<>>
       ELSE <<"<!-- Education Section --><section style=\"margin-bottom: ">>
            \o <<config.section_spacing>>
            \o <<";\"><h2 style=\"font-size: 18px; font-weight: 600; color: ">>
            \o <<config.primary_color>>
            \o <<"; margin: 0 0 12px 0; text-transform: uppercase; letter-spacing: 1px; border-bottom: 1px solid #e5e7eb; padding-bottom: 8px;\">Education</h2>">>
            \o education_html
            \o <<"</section>">>

\* A mutant of generate_html_from_request: education before experience
generate_html_from_request_education_first(personal_info, summary, skills, experience, education, config) ==
    <<"<!DOCTYPE html><html lang=\"en\"><head><meta charset=\"UTF-8\"><meta name=\"viewport\" content=\"width=device-width, initial-scale=1.0\"><title>">>
    \o <<personal_info.full_name>>
    \o <<" - Resume</title></head><body style=\"margin: 0; padding: 40px; background-color: #ffffff; font-family: ">>
    \o <<config.font_family>>
    \o <<"; color: #1f2937; line-height: 1.6;\"><div style=\"max-width: 800px; margin: 0 auto;\">">>
    \o build_header(personal_info, config)
    \o build_summary(summary, config)
    \o build_skills_section(skills, config)
    \o build_education_section_from_request(education, config)
    \o build_experience_section_from_request(experience, config)
    \o <<"</div></body></html>">>

generate_html_from_request(personal_info, summary, skills, experience, education, config) ==
    <<"<!DOCTYPE html><html lang=\"en\"><head><meta charset=\"UTF-8\"><meta name=\"viewport\" content=\"width=device-width, initial-scale=1.0\"><title>">>
    \o <<personal_info.full_name>>
    \o <<" - Resume</title></head><body style=\"margin: 0; padding: 40px; background-color: #ffffff; font-family: ">>
    \o <<config.font_family>>
    \o <<"; color: #1f2937; line-height: 1.6;\"><div style=\"max-width: 800px; margin: 0 auto;\">">>
    \o build_header(personal_info, config)
    \o build_summary(summary, config)
    \o build_skills_section(skills, config)
    \o build_experience_section_from_request(experience, config)
    \o build_education_section_from_request(education, config)
    \o <<"</div></body></html>">>

generate_html(personal_info, optimized_data, config) ==
    <<"<!DOCTYPE html><html lang=\"en\"><head><meta charset=\"UTF-8\"><meta name=\"viewport\" content=\"width=device-width, initial-scale=1.0\"><title>">>
    \o <<personal_info.full_name>>
    \o <<" - Resume</title></head><body style=\"margin: 0; padding: 40px; background-color: #ffffff; font-family: ">>
    \o <<config.font_family>>
    \o <<"; color: #1f2937; line-height: 1.6;\"><div style=\"max-width: 800px; margin: 0 auto;\">">>
    \o build_header(personal_info, config)
    \o build_summary(optimized_data.summary, config)
    \o build_skills_section(optimized_data.skills, config)
    \o build_experience_section(optimized_data.experience, config)
    \o build_education_section(optimized_data.education, config)
    \o <<"</div></body></html>">>

build_resume_from_request(personal_info, summary, skills, experience, education, template) ==
    LET template_config_ == template_config(template)
    IN IF template_config_.raised THEN template_config_
       ELSE Return(generate_html_from_request(personal_info, summary, skills,
                                             experience, education,
                                             template_config_.value))

build_resume(personal_info, optimized_data, template) ==
    LET template_config_ == template_config(template)
    IN IF template_config_.raised THEN template_config_
       ELSE Return(generate_html(personal_info, optimized_data,
                                 template_config_.value))

-----------------------------------------------------------------------------
(* The resumes the renderer is run on. The texts whose characters the code  *)
(* inspects (responsibilities, achievements) are sequences of characters.   *)

DidX == <<"D", "i", "d", " ", "X">>

DidY == <<"D", "i", "d", " ", "Y">>

DidZ == <<"D", "i", "d", " ", "Z">>

\* "- Did X\n- Did Y"
DidXDidY == <<"-", " ">> \o DidX \o <<"\n", "-", " ">> \o DidY

RespChars == {"-", Bullet, ":", " ", "\n", "X"}

AchTexts == {<<"X">>, <<"Z">>, <<" ">>}

Responsibilities == SeqsUpTo(RespChars, MaxRespLen) \cup {DidXDidY}

Achievements == SeqsUpTo(AchTexts, MaxAchievements) \cup {<<DidZ>>, <<DidX, DidZ>>}

\* An ExperienceItem: an ExperienceModel without achievements
ExperienceItem(company, role, start_date, end_date, responsibilities) ==
    [company |-> company, role |-> role, start_date |-> start_date,
     end_date |-> end_date, responsibilities |-> responsibilities]

\* The ExperienceItem with the fields of an ExperienceModel
as_item(exp) ==
    ExperienceItem(exp.company, exp.role, exp.start_date, exp.end_date,
                   exp.responsibilities)

RenderExperience ==
    <<ExperienceModel("Acme", "Engineer", "2019", "2021", DidXDidY, <<DidZ>>),
      ExperienceModel("Globex", "Lead", "2021", "Present",
                      <<"X", ":", "\n", Bullet, "X">>, <<>>),
      ExperienceModel("Initech", "Intern", "2018", "2019", <<"X">>, <<<<"X">>>>)>>

RenderCounts == 0..(IF MaxRenderEntries < Len(RenderExperience)
                    THEN MaxRenderEntries ELSE Len(RenderExperience))

OptionalUrls == {None, Str(""), Str("https://example.com/jane")}

TemplateNames == {"modern", "classic", "minimal", "unknown", ""}

SkillLists == {<<>>, <<"Python", "SQL">>}

\* One entry, every responsibilities text and every achievements list
BulletResumes ==
    {[personal_info |-> PersonalInfo,
      template |-> "modern",
      data |-> OptimizedResumeData("Summary",
                  <<ExperienceModel("Acme", "Engineer", "2019", "2021", r, a)>>,
                  <<>>, <<>>, <<>>)] :
        r \in Responsibilities, a \in Achievements}

\* Every template name, contact line and section list on fixed entries
StructureResumes ==
    {[personal_info |-> [PersonalInfo EXCEPT !.linkedin = l, !.portfolio = p],
      template |-> t,
      data |-> OptimizedResumeData("Summary",
                  SubSeq(RenderExperience, 1, n),
                  SubSeq(OrigEducation, 1, m), s, <<>>)] :
        l \in OptionalUrls, p \in OptionalUrls, t \in TemplateNames,
        n \in RenderCounts, m \in RenderCounts, s \in SkillLists}

RenderInputs == BulletResumes \cup StructureResumes

-----------------------------------------------------------------------------
(* ResumeBuilder: one call of build_resume or of build_resume_from_request *)

\* build_resume(personal_info, optimized_data, template)
BuildResume ==
    /\ render_pc = "call"
    /\ LET result == build_resume(arg_personal_info, arg_optimized_data, arg_template)
       IN /\ render_pc' = IF result.raised THEN "raised" ELSE "returned"
          /\ html' = IF result.raised THEN <<>> ELSE result.value
    /\ entry_bullet_points' = [i \in 1..Len(arg_optimized_data.experience) |->
                            experience_bullets(arg_optimized_data.experience[i])]
    /\ builder' = "build_resume"
    /\ UNCHANGED <<arg_personal_info, arg_optimized_data, arg_template, notRenderVars>>

\* build_resume_from_request(personal_info, summary, skills, experience,
\* education, template) on the same resume, its entries as ExperienceItems
BuildResumeFromRequest ==
    /\ render_pc = "call"
    /\ LET experience == [i \in 1..Len(arg_optimized_data.experience) |->
                             as_item(arg_optimized_data.experience[i])]
           result == build_resume_from_request(
                         arg_personal_info, arg_optimized_data.summary,
                         arg_optimized_data.skills, experience,
                         arg_optimized_data.education, arg_template)
       IN /\ render_pc' = IF result.raised THEN "raised" ELSE "returned"
          /\ html' = IF result.raised THEN <<>> ELSE result.value
          /\ entry_bullet_points' = [i \in 1..Len(experience) |->
                                  responsibility_bullets(experience[i].responsibilities)]
    /\ builder' = "build_resume_from_request"
    /\ UNCHANGED <<arg_personal_info, arg_optimized_data, arg_template, notRenderVars>>

NextRender == BuildResume \/ BuildResumeFromRequest

IdleRender ==
    /\ render_pc = "idle"
    /\ arg_personal_info = PersonalInfo
    /\ arg_optimized_data = OptimizedResumeData("", <<>>, <<>>, <<>>, <<>>)
    /\ arg_template = "modern"
    /\ builder = ""
    /\ entry_bullet_points = <<>>
    /\ html = <<>>

\* A resume and a arg_template name are about to be rendered
InitRender ==
    /\ render_pc = "call"
    /\ \E input \in RenderInputs :
          /\ arg_personal_info = input.personal_info
          /\ arg_optimized_data = input.data
          /\ arg_template = input.template
    /\ builder = ""
    /\ entry_bullet_points = <<>>
    /\ html = <<>>

-----------------------------------------------------------------------------
(* pdf_service.py: PDFService.generate_pdf *)

\* "if filename:" on an Optional[str]
is_given(name) == name # None /\ name.v # <<>>

\* The characters of "_resume.pdf"
ResumePdf == <<"_", "r", "e", "s", "u", "m", "e", ".", "p", "d", "f">>

\* A mutant of generate_pdf: the candidate name before the filename
generate_pdf_candidate_first(filename_, candidate_name, uuid) ==
    LET safe_filename ==
            IF is_given(candidate_name) THEN sanitize_filename(candidate_name.v, uuid)
            ELSE IF is_given(filename_) THEN sanitize_filename(filename_.v, uuid)
            ELSE uuid
    IN safe_filename \o ResumePdf

\* pdf_filename of generate_pdf(html_content, filename, candidate_name)
generate_pdf(filename_, candidate_name, uuid) ==
    LET safe_filename ==
            IF is_given(filename_) THEN sanitize_filename(filename_.v, uuid)
            ELSE IF is_given(candidate_name) THEN sanitize_filename(candidate_name.v, uuid)
            ELSE uuid
    IN safe_filename \o ResumePdf

\* How the writing of the file ends: xhtml2pdf writes it; xhtml2pdf is missing
\* or fails and reportlab writes it; reportlab fails as well
PdfOutcomes == {"xhtml2pdf", "reportlab", "failed"}

\* How the try block of generate_pdf runs (lines 67-79): to its end; the
\* import of xhtml2pdf fails; open() fails; CreatePDF raises after the file
\* is opened; CreatePDF returns with pisa_status.err set
Xhtml2pdfRuns == {"ok", "ImportError", "OSError", "Exception", "err"}

\* How _create_pdf_with_reportlab runs: to its end, or it raises (reportlab
\* is missing; the file cannot be written or the document cannot be built)
ReportlabRuns == {"ok", "ImportError", "Exception"}

\* An output directory without files
NoFiles == [name \in {} |-> None]

\* dir after path is written: a file is who wrote it and what was rendered
written(dir, path, by, content) ==
    [name \in DOMAIN dir \cup {path} |->
        IF name = path THEN [by |-> by, content |-> content] ELSE dir[name]]

\* What escapes the try block of generate_pdf, and the directory it leaves
\* (lines 67-79): open(path, "w+b") creates or truncates the file before
\* CreatePDF runs
try_xhtml2pdf(dir, path, content, run) ==
    CASE run = "ok" ->
            [raised |-> FALSE, type |-> "", dir |-> written(dir, path, "xhtml2pdf", content)]
      [] run = "ImportError" ->
            [raised |-> TRUE, type |-> "ImportError", dir |-> dir]
      [] run = "OSError" ->
            [raised |-> TRUE, type |-> "OSError", dir |-> dir]
      [] run = "Exception" ->
            [raised |-> TRUE, type |-> "Exception",
             dir |-> written(dir, path, "partial", content)]
      [] run = "err" ->
            [raised |-> TRUE, type |-> "PDFServiceError",
             dir |-> written(dir, path, "partial", content)]

\* The try statement of generate_pdf (lines 67-91): both handlers, "except
\* ImportError" and "except Exception", call _create_pdf_with_reportlab, and
\* what that raises escapes
create_pdf(dir, path, content, xhtml2pdf, reportlab) ==
    LET tried == try_xhtml2pdf(dir, path, content, xhtml2pdf)
    IN IF ~tried.raised
       THEN [raised |-> FALSE, type |-> "", msg |-> "", dir |-> tried.dir]
       ELSE IF reportlab = "ok"
       THEN [raised |-> FALSE, type |-> "", msg |-> "",
             dir |-> written(tried.dir, path, "reportlab", content)]
       ELSE [raised |-> TRUE, type |-> reportlab, msg |-> "reportlab: " \o reportlab,
             dir |-> tried.dir]

\* Which renderer wrote the file, "failed" if none did
pdf_outcome(xhtml2pdf, reportlab) ==
    IF xhtml2pdf = "ok" THEN "xhtml2pdf"
    ELSE IF reportlab = "ok" THEN "reportlab"
    ELSE "failed"

PdfNameChars == {"J", " ", "_", "/"}

PdfNames == {None} \cup {Str(s) : s \in SeqsUpTo(PdfNameChars, MaxPdfNameLen) \cup {JohnOBrien}}

GeneratePdf ==
    /\ pdf_pc = "call"
    /\ \E u \in Uuid8, xhtml2pdf \in Xhtml2pdfRuns, reportlab \in ReportlabRuns :
          LET outcome == pdf_outcome(xhtml2pdf, reportlab)
              name == generate_pdf(arg_filename, arg_candidate_name, u)
              created == create_pdf(output_dir, name, "html_content", xhtml2pdf, reportlab)
          IN /\ outcome \in PdfOutcomes
             /\ pdf_pc' = IF created.raised THEN "raised" ELSE outcome
             /\ pdf_filename' = IF created.raised THEN <<>> ELSE name
             /\ pdf_error' = IF created.raised
                             THEN [type |-> created.type, msg |-> created.msg]
                             ELSE NoError
             /\ output_dir' = created.dir
    /\ UNCHANGED <<arg_filename, arg_candidate_name, notPdfVars>>

NextPdf == GeneratePdf

IdlePdf ==
    /\ pdf_pc = "idle"
    /\ arg_filename = None
    /\ arg_candidate_name = None
    /\ pdf_filename = <<>>
    /\ pdf_error = NoError
    /\ output_dir = NoFiles

\* generate_pdf is about to be called on an empty output directory
InitGeneratePdf ==
    /\ pdf_pc = "call"
    /\ arg_filename \in PdfNames
    /\ arg_candidate_name \in PdfNames
    /\ pdf_filename = <<>>
    /\ pdf_error = NoError
    /\ output_dir = NoFiles

-----------------------------------------------------------------------------
(* routers/resume.py: generate_resume and download_resume_pdf. Both are     *)
(* coroutines without an await, so each runs from its call to its answer    *)
(* before another request is served.                                        *)

\* raise HTTPException(status_code, detail)
HTTPException(status_code, detail) ==
    [status |-> status_code, detail |-> detail, body |-> None]

\* A response with status 200 and a body
Ok(body) == [status |-> 200, detail |-> "", body |-> body]

\* The characters of the candidate names of the requests
Characters(name) ==
    CASE name = "Jane Doe" -> <<"J", "a", "n", "e", " ", "D", "o", "e">>
      [] name = "JANE  DOE" -> <<"J", "A", "N", "E", " ", " ", "D", "O", "E">>
      [] name = "J..Doe" -> <<"J", ".", ".", "D", "o", "e">>
      [] name = " " -> <<" ">>

\* pdf_service.get_download_url(filename)
get_download_url(filename_) == <<"/api/resume/download/">> \o filename_

\* OptimizedExperienceItem(..., achievements=[]) for exp in request.experience
optimized_experience_items(request_) ==
    [i \in 1..Len(request_.experience) |->
        LET exp == request_.experience[i]
        IN ExperienceModel(exp.company, exp.role, exp.start_date, exp.end_date,
                           exp.responsibilities, <<>>)]

\* OptimizedEducationItem(...) for edu in request.education
optimized_education_items(request_) ==
    [i \in 1..Len(request_.education) |->
        LET edu == request_.education[i]
        IN EducationModel(edu.degree, edu.institution, edu.year)]

ResumeResponse(request_, html_content, pdf_filename_) ==
    [optimized_summary |-> request_.summary,
     optimized_experience |-> optimized_experience_items(request_),
     optimized_education |-> optimized_education_items(request_),
     optimized_skills |-> request_.skills,
     resume_html |-> html_content,
     pdf_download_url |-> get_download_url(pdf_filename_)]

\* How the call of build_resume_from_request runs: to its end, or an
\* exception is raised in it (out of memory, for one)
HtmlRuns == {"ok", "Exception"}

\* A mutant of generate_resume: without "except HTTPException: raise"
generate_resume_rewrapped(request_, dir, uuid, html_run, xhtml2pdf, reportlab) ==
    LET built == IF html_run = "ok"
                 THEN build_resume_from_request(
                          request_.personal_info, request_.summary, request_.skills,
                          request_.experience, request_.education, request_.template)
                 ELSE Raise("Exception", "render")
        pdf_filename_ == generate_pdf(None,
                                      Str(Characters(request_.personal_info.full_name)),
                                      uuid)
        created == create_pdf(dir, pdf_filename_, built.value, xhtml2pdf, reportlab)
    IN IF built.raised
       THEN [response |-> HTTPException(500, "Unexpected error: "
                                              \o "HTML generation failed: " \o built.msg),
             dir |-> dir]
       ELSE IF created.raised
       THEN [response |-> HTTPException(500, "Unexpected error: " \o created.msg),
             dir |-> created.dir]
       ELSE [response |-> Ok(ResumeResponse(request_, built.value, pdf_filename_)),
             dir |-> created.dir]

\* generate_resume(request) on the output directory dir (lines 56-142): the
\* response, and the directory it leaves. No statement of it calls the AI
\* service.
generate_resume(request_, dir, uuid, html_run, xhtml2pdf, reportlab) ==
    LET built == IF html_run = "ok"
                 THEN build_resume_from_request(
                          request_.personal_info, request_.summary, request_.skills,
                          request_.experience, request_.education, request_.template)
                 ELSE Raise("Exception", "render")
        pdf_filename_ == generate_pdf(None,
                                      Str(Characters(request_.personal_info.full_name)),
                                      uuid)
        created == create_pdf(dir, pdf_filename_, built.value, xhtml2pdf, reportlab)
    IN IF built.raised
       THEN [response |-> HTTPException(500, "HTML generation failed: " \o built.msg),
             dir |-> dir]
       ELSE IF created.raised /\ created.type = "PDFServiceError"
       THEN [response |-> HTTPException(500, "PDF generation failed: " \o created.msg),
             dir |-> created.dir]
       ELSE IF created.raised
       THEN [response |-> HTTPException(500, "Unexpected error: " \o created.msg),
             dir |-> created.dir]
       ELSE [response |-> Ok(ResumeResponse(request_, built.value, pdf_filename_)),
             dir |-> created.dir]

\* ".." in filename
has_dotdot(s) == \E i \in 1..(Len(s) - 1) : s[i] = "." /\ s[i + 1] = "."

DotPdf == <<".", "p", "d", "f">>

\* filename.endswith(".pdf")
ends_with_pdf(s) == Len(s) >= 4 /\ SubSeq(s, Len(s) - 3, Len(s)) = DotPdf

\* A mutant of download_resume_pdf: the suffix is not appended
download_resume_pdf_as_given(filename_, dir) ==
    IF filename_ = <<>> \/ has_dotdot(filename_) \/ filename_[1] = "/"
    THEN HTTPException(400, "Invalid filename")
    ELSE IF filename_ \notin DOMAIN dir
    THEN HTTPException(404, "File not found")
    ELSE Ok([path |-> filename_, file |-> dir[filename_]])

\* download_resume_pdf(filename) on the output directory dir (lines 163-190)
download_resume_pdf(filename_, dir) ==
    IF filename_ = <<>> \/ has_dotdot(filename_) \/ filename_[1] = "/"
    THEN HTTPException(400, "Invalid filename")
    ELSE LET name == IF ends_with_pdf(filename_) THEN filename_ ELSE filename_ \o DotPdf
         IN IF name \notin DOMAIN dir
            THEN HTTPException(404, "File not found")
            ELSE Ok([path |-> name, file |-> dir[name]])

\* The requests generate_resume is called with: candidate names that are
\* sanitized to the same identifier, a name with two dots, a blank name, with
\* one experience and one education entry in template "classic"; and a
\* request without entries in template "modern"
RouterNames == {"Jane Doe", "JANE  DOE", "J..Doe", " "}

GenerateRequest(name, n, template) ==
    [personal_info |-> [PersonalInfo EXCEPT !.full_name = name],
     summary |-> "Summary",
     skills |-> <<"Python", "SQL">>,
     experience |-> [i \in 1..n |-> as_item(RenderExperience[i])],
     education |-> SubSeq(OrigEducation, 1, n),
     job_description |-> "",
     template |-> template]

RouterRequests ==
    {GenerateRequest(name, 1, "classic") : name \in RouterNames}
        \cup {GenerateRequest("Jane Doe", 0, "modern")}

\* Who sends a generate-resume request: one request each
Clients == {"first", "second"}

\* The identifiers uuid4 may give in generate_resume(request): it is called
\* when the candidate name is sanitized to the empty string
UuidsFor(request_) ==
    IF sanitize_filename(Characters(request_.personal_info.full_name), <<>>) = <<>>
    THEN Uuid8
    ELSE {<<>>}

\* A step that is not reached does not run: uuid4 for a name that is
\* sanitized to an identifier, xhtml2pdf after a failed rendering of the
\* HTML, reportlab after xhtml2pdf has written the file
GenerateResume ==
    /\ Len(gen_requests) < Cardinality(Clients)
    /\ \E request_ \in RouterRequests, html_run \in HtmlRuns :
       \E u \in UuidsFor(request_) :
       \E xhtml2pdf \in (IF html_run = "ok" THEN Xhtml2pdfRuns ELSE {"ok"}) :
       \E reportlab \in (IF xhtml2pdf = "ok" THEN {"ok"} ELSE ReportlabRuns) :
          LET handled == generate_resume(request_, output_dir, u, html_run,
                                         xhtml2pdf, reportlab)
          IN /\ gen_requests' = Append(gen_requests, request_)
             /\ gen_responses' = Append(gen_responses, handled.response)
             /\ gen_html_runs' = Append(gen_html_runs, html_run)
             /\ output_dir' = handled.dir
    /\ UNCHANGED <<provider_reachable, dl_pc, dl_filename, dl_response, notRouterVars>>

\* The filename of a download URL
UrlFilename(url) == Tail(url)

WithoutPdf(name) == SubSeq(name, 1, Len(name) - 4)

DownloadChars == {".", "/"}

\* The filenames download_resume_pdf is called with: short ones of dots and
\* slashes, names of no file, the names of the files there are with and
\* without ".pdf", the filenames of the download URLs returned so far
DownloadNames ==
    SeqsUpTo(DownloadChars, MaxDownloadLen)
        \cup {<<"j">>, DotPdf}
        \cup DOMAIN output_dir
        \cup {WithoutPdf(name) : name \in DOMAIN output_dir}
        \cup {UrlFilename(gen_responses[i].body.pdf_download_url) :
                 i \in {k \in 1..Len(gen_responses) : gen_responses[k].status = 200}}

DownloadResumePdf ==
    /\ dl_pc = "idle"
    /\ \E f \in DownloadNames :
          /\ dl_filename' = f
          /\ dl_response' = download_resume_pdf(f, output_dir)
    /\ dl_pc' = "done"
    /\ UNCHANGED <<provider_reachable, gen_requests, gen_responses, gen_html_runs,
                   output_dir, notRouterVars>>

NextRouter == GenerateResume \/ DownloadResumePdf

IdleRouter ==
    /\ provider_reachable = TRUE
    /\ gen_requests = <<>>
    /\ gen_responses = <<>>
    /\ gen_html_runs = <<>>
    /\ dl_pc = "off"
    /\ dl_filename = <<>>
    /\ dl_response = None

\* The service is up with an empty output directory; the AI provider
\* answers, or every POST to it times out
InitRouter ==
    /\ provider_reachable \in BOOLEAN
    /\ gen_requests = <<>>
    /\ gen_responses = <<>>
    /\ gen_html_runs = <<>>
    /\ dl_pc = "idle"
    /\ dl_filename = <<>>
    /\ dl_response = None

-----------------------------------------------------------------------------
(* The specifications *)

IdleAI ==
    /\ OPENAI_API_KEY = "" /\ ANTHROPIC_API_KEY = "" /\ GEMINI_API_KEY = ""
    /\ arg_use_claude = FALSE /\ arg_use_gemini = FALSE
    /\ use_claude = FALSE /\ use_gemini = FALSE
    /\ openai_api_key = "" /\ anthropic_api_key = "" /\ gemini_api_key = ""
    /\ ai_pc = "idle"
    /\ request = ResumeRequest(0, 0)
    /\ posts = <<>>
    /\ http_calls = <<>>
    /\ reply = NoReply
    /\ response_data = None
    /\ ai_result = None
    /\ ai_error = NoError

\* The requests optimize_resume is called with: with and without a job
\* description, with and without skills, with and without the optional links
AiRequests ==
    {ResumeRequest(1, 1), ResumeRequest(2, 0),
     [ResumeRequest(1, 1) EXCEPT !.job_description = "Build APIs"],
     [ResumeRequest(0, 2) EXCEPT !.job_description = " ", !.skills = <<>>],
     [ResumeRequest(2, 2) EXCEPT !.personal_info.linkedin = Str("in/jane"),
                                 !.personal_info.portfolio = Str("")]}

\* Before AIService(use_claude, use_gemini) is called
InitAI ==
    /\ OPENAI_API_KEY \in Keys /\ ANTHROPIC_API_KEY \in Keys /\ GEMINI_API_KEY \in Keys
    /\ arg_use_claude \in BOOLEAN /\ arg_use_gemini \in BOOLEAN
    /\ use_claude = FALSE /\ use_gemini = FALSE
    /\ openai_api_key = "" /\ anthropic_api_key = "" /\ gemini_api_key = ""
    /\ ai_pc = "new"
    /\ request \in AiRequests
    /\ posts = <<>>
    /\ http_calls = <<>>
    /\ reply = NoReply
    /\ response_data = None
    /\ ai_result = None
    /\ ai_error = NoError

\* _parse_ai_response is about to be called
InitNormalize ==
    /\ OPENAI_API_KEY = "" /\ ANTHROPIC_API_KEY = "" /\ GEMINI_API_KEY = ""
    /\ arg_use_claude = FALSE /\ arg_use_gemini = FALSE
    /\ use_claude = FALSE /\ use_gemini = FALSE
    /\ openai_api_key = "" /\ anthropic_api_key = "" /\ gemini_api_key = ""
    /\ ai_pc = "parse"
    /\ request \in Requests
    /\ posts = <<>>
    /\ http_calls = <<>>
    /\ reply = NoReply
    /\ response_data \in Docs
    /\ ai_result = None
    /\ ai_error = NoError

Init == InitAI /\ IdleSanitize /\ IdleRender /\ IdlePdf /\ IdleRouter

Next == AIServiceInit \/ OptimizeResume \/ ProviderReply

\* One AIService and one optimize_resume call
Spec == Init /\ [][Next]_vars

InitSan == InitSanitize /\ IdleAI /\ IdleRender /\ IdlePdf /\ IdleRouter

\* _sanitize_filename on one input
SpecSanitize == InitSan /\ [][NextSanitize]_vars

InitNorm == InitNormalize /\ IdleSanitize /\ IdleRender /\ IdlePdf /\ IdleRouter

NextNormalize == ParseAiResponse

\* _parse_ai_response on one response and one request
SpecNormalize == InitNorm /\ [][NextNormalize]_vars

InitRen == InitRender /\ IdleSanitize /\ IdleAI /\ IdlePdf /\ IdleRouter

\* One call of the renderer on one resume
SpecRender == InitRen /\ [][NextRender]_vars

InitPdf == InitGeneratePdf /\ IdleSanitize /\ IdleAI /\ IdleRender /\ IdleRouter

\* One call of generate_pdf
SpecPdf == InitPdf /\ [][NextPdf]_vars

InitRou ==
    /\ InitRouter /\ IdleSanitize /\ IdleAI /\ IdleRender
    /\ pdf_pc = "idle" /\ arg_filename = None /\ arg_candidate_name = None
    /\ pdf_filename = <<>> /\ pdf_error = NoError /\ output_dir = NoFiles

\* The requests of two clients to generate_resume and one download
SpecRouter == InitRou /\ [][NextRouter]_vars

-----------------------------------------------------------------------------
(* C1 *)

LowerLetters == Range(LowerCase)

\* C1 as stated: for every input, _sanitize_filename returns a non-empty
\* string of lowercase letters, digits and underscores only, with no two
\* adjacent underscores.
C1_OnlyLowerDigitsUnderscore ==
    san_pc = "return" =>
        /\ sanitized # <<>>
        /\ Range(sanitized) \subseteq (LowerLetters \cup Digits \cup {"_"})
        /\ ~has_double(sanitized)

\* C1 amended: for every input, _sanitize_filename returns a non-empty string
\* that holds none of the characters < > : " / \ | ? *, no space and no ASCII
\* uppercase letter, has no two adjacent underscores and neither starts nor
\* ends with an underscore; every other character of the input (such as ' or
\* !) is kept.
C1_SanitizedShape ==
    san_pc = "return" =>
        /\ sanitized # <<>>
        /\ Range(sanitized) \cap (Range(invalid_chars) \cup {" "} \cup Range(UpperCase)) = {}
        /\ ~has_double(sanitized)
        /\ sanitized[1] # "_" /\ sanitized[Len(sanitized)] # "_"
        /\ \A c \in Range(filename) :
              c \notin (Range(invalid_chars) \cup {" ", "_"})
                  => lower_char(c) \in Range(sanitized)

\* The spec's example has been sanitized: john_o'brien!!
C1_Witness ==
    /\ san_pc = "return"
    /\ filename = JohnOBrien
    /\ sanitized = <<"j","o","h","n","_","o","'","b","r","i","e","n","!","!">>

-----------------------------------------------------------------------------
(* C2, C3, C4: provider selection *)

NoCredential == OPENAI_API_KEY = "" /\ ANTHROPIC_API_KEY = "" /\ GEMINI_API_KEY = ""

\* Gemini > Anthropic > OpenAI by credential presence
PriorityProvider ==
    IF GEMINI_API_KEY # "" THEN "gemini"
    ELSE IF ANTHROPIC_API_KEY # "" THEN "claude"
    ELSE "openai"

\* The constructor and the selection of optimize_resume have both run, or the
\* constructor has raised
SelectionDone == ai_pc \in {"awaiting", "returned", "raised"}

ConfigurationError ==
    /\ ai_pc = "raised"
    /\ ai_error.msg \in {"No API key configured",
                         "No valid API key available for the selected service"}

C3_RequestedProviderCalled ==
    SelectionDone =>
        /\ (arg_use_gemini /\ GEMINI_API_KEY # "") => posts = <<"gemini">>
        /\ (arg_use_claude /\ ANTHROPIC_API_KEY # "") => posts = <<"claude">>

\* C3 amended: when use_gemini is set and the Gemini credential is present,
\* exactly Gemini is called; when use_claude is set and the Anthropic
\* credential is present, exactly Claude is called, unless use_gemini is set
\* too with the Gemini credential present, in which case Gemini is called.
C3_ExplicitProviderGeminiFirst ==
    SelectionDone =>
        /\ (arg_use_gemini /\ GEMINI_API_KEY # "") => posts = <<"gemini">>
        /\ (arg_use_claude /\ ANTHROPIC_API_KEY # ""
                /\ ~(arg_use_gemini /\ GEMINI_API_KEY # ""))
             => posts = <<"claude">>

\* Claude is requested with every credential present: Claude has been called,
\* not Gemini, the first in the automatic order
C3_Witness ==
    /\ arg_use_claude /\ ~arg_use_gemini
    /\ GEMINI_API_KEY # "" /\ ANTHROPIC_API_KEY # "" /\ OPENAI_API_KEY # ""
    /\ ai_pc = "awaiting"
    /\ posts = <<"claude">>

\* Some provider is requested, and no requested provider has its credential
RequestedCredentialAbsent ==
    /\ arg_use_claude \/ arg_use_gemini
    /\ arg_use_claude => ANTHROPIC_API_KEY = ""
    /\ arg_use_gemini => GEMINI_API_KEY = ""

\* C4: selection ends in a configuration error exactly when no credential is
\* present; when the requested provider's credential is absent and another
\* credential is present, the provider first in the order Gemini, Anthropic,
\* OpenAI among those with a credential is called.
C4_ErrorOnlyWithoutCredential ==
    SelectionDone =>
        /\ ConfigurationError <=> NoCredential
        /\ (RequestedCredentialAbsent /\ ~NoCredential) => posts = <<PriorityProvider>>

-----------------------------------------------------------------------------
(* C7: text that is no JSON *)

ParseError ==
    /\ ai_pc = "raised"
    /\ ai_error = [type |-> "AIServiceError",
                   msg |-> "Failed to parse AI response as JSON"]

\* C7: whichever provider was called, when its text is not valid JSON after
\* fence stripping (for example "not json"), optimize_resume raises
\* AIServiceError 'Failed to parse AI response as JSON' and returns no
\* OptimizedResumeData.
C7_InvalidJsonRaisesParseError ==
    (reply # NoReply /\ reply.http = "2xx" /\ reply.envelope = "text"
        /\ strip_fences(reply.content) # <<JsonDoc>>)
    => (ParseError /\ ai_result = None /\ posts \in {<<p>> : p \in Providers})

\* Claude answered with the text "not json" inside a fence
C7_Witness ==
    /\ posts = <<"claude">>
    /\ reply # NoReply /\ reply.http = "2xx" /\ reply.envelope = "text"
    /\ reply.content = <<Fence, "\n", NotJson>>
    /\ ParseError

-----------------------------------------------------------------------------
(* C5, C6, C8: the normalizer *)

Parsed == ai_pc \in {"returned", "raised"}

\* The key is missing from the response or its value is the empty list
OmittedOrEmpty(key) ==
    key \notin DOMAIN response_data \/ response_data[key] = List(<<>>)

\* The key is missing or its value is null, the empty string or the empty list
MissingOrFalsy(key) ==
    key \notin DOMAIN response_data
        \/ response_data[key] \in {None, Str(""), List(<<>>)}

\* The result's experience is the request's, entry by entry, with no achievements
ExperienceIsOriginal ==
    /\ Len(ai_result.experience) = Len(request.experience)
    /\ \A i \in 1..Len(request.experience) :
          /\ \A f \in ExpFields \ {"achievements"} :
                ai_result.experience[i][f] = Str(request.experience[i][f])
          /\ ai_result.experience[i].achievements = List(<<>>)

\* The result's education is the request's, entry by entry
EducationIsOriginal ==
    /\ Len(ai_result.education) = Len(request.education)
    /\ \A i \in 1..Len(request.education) :
          \A f \in EduFields :
              ai_result.education[i][f] = Str(request.education[i][f])

\* C5: when the response omits optimized_experience (optimized_education) or
\* gives it as the empty list, the result holds one entry per entry of the
\* request, in the same order, every field equal to the original's and, for
\* experience, achievements empty.
C5_FallbackKeepsOriginalEntries ==
    Parsed =>
        /\ ai_pc = "returned"
        /\ OmittedOrEmpty("optimized_experience") => ExperienceIsOriginal
        /\ OmittedOrEmpty("optimized_education") => EducationIsOriginal

\* The spec's example: {"optimized_summary": "X"} and two original entries
C5_Witness ==
    /\ ai_pc = "returned"
    /\ response_data = Doc(Str("X"), Absent, Absent, Absent, Absent)
    /\ Len(request.experience) = 2
    /\ ai_result.summary = Str("X")
    /\ Len(ai_result.experience) = 2
    /\ ai_result.experience[2].company = Str("Globex")

\* C6: for each top-level key, independently, a missing or falsy value gives
\* the fallback derived from the request (the original summary, the rebuilt
\* original entries, the original skills, no keywords), and the normalizer
\* never fails.
C6_FalsyKeyFallsBack ==
    Parsed =>
        /\ ai_pc = "returned"
        /\ MissingOrFalsy("optimized_summary")
              => ai_result.summary = Str(request.summary)
        /\ MissingOrFalsy("optimized_experience") => ExperienceIsOriginal
        /\ MissingOrFalsy("optimized_education") => EducationIsOriginal
        /\ MissingOrFalsy("optimized_skills")
              => ai_result.skills = List(request.skills)
        /\ MissingOrFalsy("ats_keywords") => ai_result.ats_keywords = List(<<>>)

\* What a subfield of an AI entry defaults to
SubfieldDefault(f) == IF f = "achievements" THEN List(<<>>) ELSE Str("")

\* out holds one entry per entry of given, in order, absent subfields defaulted
EntriesAsGiven(out, given, fields) ==
    /\ Len(out) = Len(given)
    /\ \A i \in 1..Len(given) :
          \A f \in fields :
              out[i][f] = IF f \in DOMAIN given[i] THEN given[i][f]
                          ELSE SubfieldDefault(f)

NonEmptyList(key) ==
    /\ key \in DOMAIN response_data
    /\ response_data[key].t = "list"
    /\ response_data[key].v # <<>>

\* C8: a non-empty optimized_experience (optimized_education) list gives one
\* entry per AI entry, in the AI's order, whatever the number of original
\* entries; an absent subfield is the empty string, absent achievements the
\* empty list, each independently of the others.
C8_AiEntriesKeptWithDefaults ==
    ai_pc = "returned" =>
        /\ NonEmptyList("optimized_experience")
              => EntriesAsGiven(ai_result.experience,
                                response_data["optimized_experience"].v, ExpFields)
        /\ NonEmptyList("optimized_education")
              => EntriesAsGiven(ai_result.education,
                                response_data["optimized_education"].v, EduFields)

\* Two AI entries for a request without experience: the first has only its
\* company, the second is complete
C8_Witness ==
    /\ ai_pc = "returned"
    /\ request.experience = <<>>
    /\ NonEmptyList("optimized_experience")
    /\ response_data["optimized_experience"].v =
          <<Restrict(AiExpFull, {"company"}), AiExpFull>>
    /\ ai_result.experience =
          <<ExperienceModel(Str("Acme Corp"), Str(""), Str(""), Str(""), Str(""),
                            List(<<>>)),
            AiExpFull>>

-----------------------------------------------------------------------------
(* Template fallback *)

KnownTemplates == {"modern", "classic", "minimal"}

\* The HTML of the same call with template "modern"
ModernHtml ==
    IF builder = "build_resume"
    THEN build_resume(arg_personal_info, arg_optimized_data, "modern").value
    ELSE build_resume_from_request(
             arg_personal_info, arg_optimized_data.summary,
             arg_optimized_data.skills,
             [i \in 1..Len(arg_optimized_data.experience) |->
                 as_item(arg_optimized_data.experience[i])],
             arg_optimized_data.education, "modern").value

\* The colors, font and spacing a document is rendered with can be read off
\* its header: margin-bottom and border color of the header element, color of
\* the first contact span, and the font-family of the body
RenderedWith(config) ==
    /\ html[4] = config.font_family
    /\ html[7] = config.section_spacing
    /\ html[9] = config.primary_color
    /\ html[15] = config.secondary_color

\* C9: a call of build_resume or of build_resume_from_request with a template
\* name that is not modern, classic or minimal does not fail, and returns the
\* HTML that the same call with template "modern" returns, rendered with the
\* constants of "modern".
C9_UnknownTemplateRendersModern ==
    (render_pc \in {"returned", "raised"} /\ arg_template \notin KnownTemplates)
        => /\ render_pc = "returned"
           /\ html = ModernHtml
           /\ RenderedWith(TEMPLATES.modern)

C9_Witness ==
    /\ render_pc = "returned"
    /\ builder = "build_resume_from_request"
    /\ arg_template = "unknown"
    /\ Len(arg_optimized_data.experience) = 2
    /\ Len(arg_optimized_data.education) = 1
    /\ arg_optimized_data.skills # <<>>
    /\ html = ModernHtml
    /\ RenderedWith(TEMPLATES.modern)

-----------------------------------------------------------------------------
(* Achievements in the bullet list *)

\* s without its repetitions: the first occurrence of every element, in order
RECURSIVE Dedup(_)
Dedup(s) ==
    IF s = <<>> THEN <<>>
    ELSE LET rest == Dedup(SubSeq(s, 1, Len(s) - 1))
         IN IF s[Len(s)] \in Range(rest) THEN rest ELSE Append(rest, s[Len(s)])

Reverse(s) == [i \in 1..Len(s) |-> s[Len(s) + 1 - i]]

\* The achievements that are not among the responsibility bullets
NotAmong(achievements, bullets) ==
    SelectSeq(achievements, LAMBDA a : a \notin Range(bullets))

\* The deduplicated achievements reversed, then the responsibility bullets
AchievementsThenResponsibilities(exp) ==
    LET bullets == responsibility_bullets(exp.responsibilities)
    IN Reverse(Dedup(NotAmong(exp.achievements, bullets))) \o bullets

LiOpen == "<li style=\"margin-bottom: 6px; color: #374151; font-size: 14px;\">"

\* The texts of the list items of an HTML, in document order
LiItems(h) ==
    LET opens == {i \in 1..Len(h) : h[i] = LiOpen}
        closes == {i \in 1..Len(h) : h[i] = "</li>"}
        nth(n) == CHOOSE p \in opens : Cardinality({q \in opens : q < p}) = n - 1
        close(p) == CHOOSE k \in closes : k > p /\ \A j \in closes : j > p => k <= j
    IN [n \in 1..Cardinality(opens) |-> SubSeq(h, nth(n) + 1, close(nth(n)) - 1)]

\* How a bullet list shows: every bullet trimmed, the blank ones left out
Shown(bullets) ==
    SelectSeq([i \in 1..Len(bullets) |-> str_strip(bullets[i], Whitespace)],
              LAMBDA point : point # <<>>)

\* C10: after build_resume, the bullet list of every experience entry is its
\* achievements, without repetitions and without those equal to a
\* responsibility bullet, in reverse order, followed by its responsibility
\* bullets; two distinct new achievements [A, B] come out as [B, A, ...]; and
\* the list items of the HTML are these bullets in this order (trimmed, blank
\* ones left out).
C10_AchievementsReversedThenResponsibilities ==
    (render_pc = "returned" /\ builder = "build_resume")
        => LET experience == arg_optimized_data.experience
           IN /\ Len(entry_bullet_points) = Len(experience)
              /\ \A i \in 1..Len(experience) :
                    LET exp == experience[i]
                        bullets == responsibility_bullets(exp.responsibilities)
                    IN /\ entry_bullet_points[i] = AchievementsThenResponsibilities(exp)
                       /\ (/\ Len(exp.achievements) = 2
                           /\ exp.achievements[1] # exp.achievements[2]
                           /\ Range(exp.achievements) \cap Range(bullets) = {})
                            => entry_bullet_points[i] =
                                   <<exp.achievements[2], exp.achievements[1]>> \o bullets
              /\ LiItems(html) =
                    Concat([i \in 1..Len(experience) |->
                               Shown(AchievementsThenResponsibilities(experience[i]))])

C10_Witness ==
    /\ render_pc = "returned"
    /\ builder = "build_resume"
    /\ Len(arg_optimized_data.experience) = 1
    /\ arg_optimized_data.experience[1].responsibilities = DidXDidY
    /\ arg_optimized_data.experience[1].achievements = <<DidZ>>
    /\ entry_bullet_points = <<<<DidZ, DidX, DidY>>>>
    /\ LiItems(html) = <<DidZ, DidX, DidY>>

-----------------------------------------------------------------------------
(* Bullet derivation *)

HasMarker(text) == Markers \cap Range(text) # {}

\* The lines of a text, each trimmed, the blank ones left out
TrimmedLines(text) ==
    LET lines == split_lines(text)
    IN SelectSeq([i \in 1..Len(lines) |-> str_strip(lines[i], Whitespace)],
                 LAMBDA line : line # <<>>)

\* A trimmed line without its leading markers and the blanks after them
AfterMarkers(line) == str_strip(str_lstrip(line, Markers), Whitespace)

Bold(line) == StrongOpen \o line \o StrongClose

\* The bullet every line becomes, as the sentence has it: one bullet a line
BulletOfLine(line) ==
    IF line[1] \in Markers THEN AfterMarkers(line)
    ELSE IF line[Len(line)] = ":" THEN Bold(line)
    ELSE line

\* One bullet for every non-blank line of a text with a marker, one bullet
\* for a text without
BulletPerLine(text) ==
    IF HasMarker(text)
    THEN [i \in 1..Len(TrimmedLines(text)) |-> BulletOfLine(TrimmedLines(text)[i])]
    ELSE <<text>>

\* As BulletPerLine, but a line that is nothing but markers gives no bullet
BulletPerLineWithText(text) ==
    IF HasMarker(text)
    THEN SelectSeq(BulletPerLine(text), LAMBDA bullet : bullet # <<>>)
    ELSE <<text>>

\* The last n elements of s
LastN(s, n) == SubSeq(s, Len(s) - n + 1, Len(s))

\* The bullets derived from the responsibilities of entry i: the whole list
\* in build_resume_from_request, the part after the achievements in
\* build_resume
DerivedBullets(i) ==
    IF builder = "build_resume_from_request" THEN entry_bullet_points[i]
    ELSE LET n == Len(entry_bullet_points[i])
                  - Len(NotAmong(Dedup(arg_optimized_data.experience[i].achievements),
                                 BulletPerLineWithText(
                                     arg_optimized_data.experience[i].responsibilities)))
         IN LastN(entry_bullet_points[i], n)

\* C11 as stated: in a text with a bullet glyph or a hyphen every non-blank
\* line becomes a bullet (a marker line without its marker, a non-marker line
\* ending in a colon in bold, any other line as it is), and a text with
\* neither becomes exactly one bullet, the text.
C11_EveryLineBecomesBullet ==
    render_pc = "returned"
        => \A i \in 1..Len(arg_optimized_data.experience) :
              DerivedBullets(i) =
                  BulletPerLine(arg_optimized_data.experience[i].responsibilities)

\* C11 amended: as stated, on the trimmed lines, except that a marker line
\* with nothing after its leading markers gives no bullet; the list items of
\* build_resume_from_request are these bullets.
C11_BulletDerivation ==
    render_pc = "returned"
        => /\ \A i \in 1..Len(arg_optimized_data.experience) :
                 DerivedBullets(i) =
                     BulletPerLineWithText(
                         arg_optimized_data.experience[i].responsibilities)
           /\ builder = "build_resume_from_request"
                 => LiItems(html) =
                        Concat([i \in 1..Len(arg_optimized_data.experience) |->
                            Shown(BulletPerLineWithText(
                                arg_optimized_data.experience[i].responsibilities))])

C11_Witness ==
    /\ render_pc = "returned"
    /\ builder = "build_resume_from_request"
    /\ Len(arg_optimized_data.experience) = 1
    /\ arg_optimized_data.experience[1].responsibilities = <<"-", "\n", "X">>
    /\ entry_bullet_points = <<<<<<"X">>>>>>
    /\ LiItems(html) = <<<<"X">>>>

-----------------------------------------------------------------------------
(* Sections of the document *)

HeaderOpen == "<!-- Header Section --><header style=\"text-align: center; margin-bottom: "

SummaryOpen == "<!-- Summary Section --><section style=\"margin-bottom: "

SkillsOpen == "<!-- Skills Section --><section style=\"margin-bottom: "

ExperienceOpen == "<!-- Experience Section --><section style=\"margin-bottom: "

EducationOpen == "<!-- Education Section --><section style=\"margin-bottom: "

SummaryHeading ==
    "; margin: 0 0 12px 0; text-transform: uppercase; letter-spacing: 1px; border-bottom: 1px solid #e5e7eb; padding-bottom: 8px;\">Professional Summary</h2><p style=\"margin: 0; color: #374151; font-size: 14px; text-align: justify;\">"

SkillsHeading ==
    "; margin: 0 0 12px 0; text-transform: uppercase; letter-spacing: 1px; border-bottom: 1px solid #e5e7eb; padding-bottom: 8px;\">Skills</h2><div style=\"line-height: 2;\">"

ExperienceHeading ==
    "; margin: 0 0 16px 0; text-transform: uppercase; letter-spacing: 1px; border-bottom: 1px solid #e5e7eb; padding-bottom: 8px;\">Work Experience</h2>"

EducationHeading ==
    "; margin: 0 0 12px 0; text-transform: uppercase; letter-spacing: 1px; border-bottom: 1px solid #e5e7eb; padding-bottom: 8px;\">Education</h2>"

SectionOpeners == {HeaderOpen, SummaryOpen, SkillsOpen, ExperienceOpen, EducationOpen}

SectionHeadings == {SummaryHeading, SkillsHeading, ExperienceHeading, EducationHeading}

\* s or nothing
OnlyIf(condition, s) == IF condition THEN s ELSE <<>>

\* C12: the sections of a rendered document are, in this order, the header,
\* the summary, the skills if there are skills, the experience if there are
\* experience entries and the education if there are education entries, each
\* once; the section headings are there for the same sections, so that an
\* empty skills list leaves neither the Skills wrapper nor its heading.
C12_SectionsInFixedOrder ==
    render_pc = "returned"
        => /\ SelectSeq(html, LAMBDA piece : piece \in SectionOpeners) =
                  <<HeaderOpen, SummaryOpen>>
                  \o OnlyIf(arg_optimized_data.skills # <<>>, <<SkillsOpen>>)
                  \o OnlyIf(arg_optimized_data.experience # <<>>, <<ExperienceOpen>>)
                  \o OnlyIf(arg_optimized_data.education # <<>>, <<EducationOpen>>)
           /\ SelectSeq(html, LAMBDA piece : piece \in SectionHeadings) =
                  <<SummaryHeading>>
                  \o OnlyIf(arg_optimized_data.skills # <<>>, <<SkillsHeading>>)
                  \o OnlyIf(arg_optimized_data.experience # <<>>, <<ExperienceHeading>>)
                  \o OnlyIf(arg_optimized_data.education # <<>>, <<EducationHeading>>)

C12_Witness ==
    /\ render_pc = "returned"
    /\ builder = "build_resume_from_request"
    /\ arg_optimized_data.skills = <<>>
    /\ Len(arg_optimized_data.experience) = 1
    /\ Len(arg_optimized_data.education) = 1
    /\ SelectSeq(html, LAMBDA piece : piece \in SectionOpeners) =
           <<HeaderOpen, SummaryOpen, ExperienceOpen, EducationOpen>>
    /\ SkillsHeading \notin Range(html)

-----------------------------------------------------------------------------
(* The contact line of the header *)

ContactOpen == "</h1><div style=\"font-size: 14px; color: "

HeaderClose == "</div></header>"

Divider == " &nbsp;|&nbsp; "

\* The first position of a piece in the HTML
FirstAt(piece) ==
    LET places == {i \in 1..Len(html) : html[i] = piece}
    IN CHOOSE i \in places : \A j \in places : i <= j

\* The pieces between the opening of the contact line and the end of the header
ContactLine == SubSeq(html, FirstAt(ContactOpen) + 3, FirstAt(HeaderClose) - 1)

\* The glyph and the text of a contact item, as they are in the HTML
ContactEntry(glyph, text) == <<glyph, text>>

\* The contact items a personal_info asks for: an optional item is asked for
\* when its field is a non-empty string
ExpectedContacts(info) ==
    <<ContactEntry(";\">U+1F4E7 ", info.email),
      ContactEntry(";\">U+1F4F1 ", info.phone),
      ContactEntry(";\">U+1F4CD ", info.location)>>
    \o OnlyIf(info.linkedin # None /\ info.linkedin.v # "",
              <<ContactEntry(";\">U+1F4BC ", info.linkedin.v)>>)
    \o OnlyIf(info.portfolio # None /\ info.portfolio.v # "",
              <<ContactEntry(";\">U+1F310 ", info.portfolio.v)>>)

\* C13: the contact line is made of n items, 3 <= n <= 5: email, phone and
\* location in this order, then the LinkedIn item only if linkedin is there,
\* then the portfolio item only if portfolio is there; every item is a span,
\* and between two consecutive items, and nowhere else, there is one divider:
\* n - 1 dividers.
C13_ContactLine ==
    render_pc = "returned"
        => LET expected == ExpectedContacts(arg_personal_info)
               n == Len(expected)
               line == ContactLine
               dividers == {i \in 1..Len(line) : line[i] = Divider}
           IN /\ n \in 3..5
              /\ Len(line) = 6 * n - 1
              /\ \A k \in 1..n :
                    /\ line[6 * k - 3] = expected[k][1]
                    /\ line[6 * k - 2] = expected[k][2]
                    /\ line[6 * k - 1] = "</span>"
              /\ dividers = {6 * k : k \in 1..(n - 1)}
              /\ Cardinality(dividers) = n - 1

C13_Witness ==
    /\ render_pc = "returned"
    /\ arg_personal_info.linkedin = Str("https://example.com/jane")
    /\ arg_personal_info.portfolio = None
    /\ Len(ContactLine) = 23
    /\ ContactLine[21] = ";\">U+1F4BC "
    /\ Cardinality({i \in 1..Len(ContactLine) : ContactLine[i] = Divider}) = 3

-----------------------------------------------------------------------------
(* Templates and the style attributes of the document *)

\* The HTML of the same call with another template name
HtmlWith(name) ==
    IF builder = "build_resume"
    THEN build_resume(arg_personal_info, arg_optimized_data, name).value
    ELSE build_resume_from_request(
             arg_personal_info, arg_optimized_data.summary,
             arg_optimized_data.skills,
             [i \in 1..Len(arg_optimized_data.experience) |->
                 as_item(arg_optimized_data.experience[i])],
             arg_optimized_data.education, name).value

ConstantNames == {"primary_color", "secondary_color", "font_family", "section_spacing"}

\* A document with the name of the constant in the place of every value of a
\* template constant: what is left is the structure and the text
Skeleton(h, config) ==
    [i \in 1..Len(h) |->
        IF \E key \in ConstantNames : h[i] = config[key]
        THEN <<"constant", CHOOSE key \in ConstantNames : h[i] = config[key]>>
        ELSE <<"piece", h[i]>>]

\* The markup the body opens with after its font-family
BodyStyle == "; color: #1f2937; line-height: 1.6;\"><div style=\"max-width: 800px; margin: 0 auto;\">"

SkillBadgeOpen ==
    "<span style=\"display: inline-block; background-color: #f3f4f6; color: #374151; padding: 6px 14px; margin: 4px; border-radius: 4px; font-size: 13px; font-weight: 500;\">"

\* Pieces of markup that set a color, a spacing or a font attribute to a
\* value written in the markup itself: the text color #1f2937 and the
\* line-height of the body, the rule #e5e7eb and the margins under a heading,
\* the text color #374151 of paragraphs and list items, the background
\* #f3f4f6 of a skill badge
FixedStylePieces ==
    {BodyStyle, SummaryHeading, SkillsHeading, ExperienceHeading,
     EducationHeading, LiOpen, SkillBadgeOpen}

\* The known templates render the same skeleton, with their own constants
SameStructureInEveryTemplate ==
    LET skeleton == Skeleton(html, template_config(arg_template).value)
    IN \A name \in KnownTemplates :
           LET other == HtmlWith(name)
           IN /\ Len(other) = Len(html)
              /\ Skeleton(other, TEMPLATES[name]) = skeleton

\* C14 as stated: the documents of two template names differ only where a
\* template constant is substituted, and no color, spacing or font attribute
\* of the document has a value of its own.
C14_EveryStyleFromConstants ==
    render_pc = "returned"
        => /\ SameStructureInEveryTemplate
           /\ Range(html) \cap FixedStylePieces = {}

\* C14 amended: the documents of two template names differ only where a
\* template constant is substituted; the four constants are not the only
\* style values: the body text color and the summary heading rule are fixed
\* markup, which the skeleton shows to be the same in every template.
C14_TemplatesDifferOnlyInConstants ==
    render_pc = "returned"
        => /\ SameStructureInEveryTemplate
           /\ html[5] = BodyStyle
           /\ SummaryHeading \in Range(html)

C14_Witness ==
    /\ render_pc = "returned"
    /\ arg_template = "classic"
    /\ Len(arg_optimized_data.experience) = 2
    /\ arg_optimized_data.skills # <<>>
    /\ html # HtmlWith("minimal")
    /\ Skeleton(html, TEMPLATES.classic) = Skeleton(HtmlWith("minimal"), TEMPLATES.minimal)
    /\ html[9] = "#1f2937"
    /\ HtmlWith("minimal")[9] = "#000000"
    /\ LiOpen \in Range(html)

-----------------------------------------------------------------------------
(* The name of the PDF file *)

UnsafeOrSpace == {"<", ">", ":", "\"", "/", "\\", "|", "?", "*", " "}

\* s with every run of underscores made one underscore
CollapsedRuns(s) ==
    LET kept == {i \in 1..Len(s) : ~(s[i] = "_" /\ i > 1 /\ s[i - 1] = "_")}
        nth(n) == CHOOSE i \in kept : Cardinality({j \in kept : j <= i}) = n
    IN [n \in 1..Cardinality(kept) |-> s[nth(n)]]

\* The identifier the sentence describes, before the random token: the input
\* in lower case, an underscore for every unsafe character and space, runs of
\* underscores collapsed, underscores at both ends trimmed
Identifier(name) ==
    LET lowered == str_lower(name)
        replaced == [i \in 1..Len(lowered) |->
                        IF lowered[i] \in UnsafeOrSpace THEN "_" ELSE lowered[i]]
    IN str_strip(CollapsedRuns(replaced), {"_"})

\* id is the identifier of a name, or a random token when that is empty
IsSanitized(id, name) ==
    IF Identifier(name) = <<>> THEN id \in Uuid8 ELSE id = Identifier(name)

\* C15: the file name generate_pdf returns is an identifier followed by
\* "_resume.pdf"; the identifier is the sanitized filename if a filename is
\* given, else the sanitized candidate name if one is given, else a random
\* token of 8 characters; a sanitized name is the identifier described above,
\* or a random token of 8 characters when that is empty.
C15_PdfFileName ==
    pdf_pc \in {"xhtml2pdf", "reportlab"}
        => /\ Len(pdf_filename) > Len(ResumePdf)
           /\ LastN(pdf_filename, Len(ResumePdf)) = ResumePdf
           /\ LET id == SubSeq(pdf_filename, 1, Len(pdf_filename) - Len(ResumePdf))
              IN /\ is_given(arg_filename) => IsSanitized(id, arg_filename.v)
                 /\ (~is_given(arg_filename) /\ is_given(arg_candidate_name))
                        => IsSanitized(id, arg_candidate_name.v)
                 /\ (~is_given(arg_filename) /\ ~is_given(arg_candidate_name))
                        => id \in Uuid8
                 /\ id \in Uuid8 => Len(id) = 8

C15_Witness ==
    /\ pdf_pc = "xhtml2pdf"
    /\ arg_filename = Str(<<"/", "J">>)
    /\ arg_candidate_name = Str(<<"_", " ">>)
    /\ pdf_filename = <<"j">> \o ResumePdf

-----------------------------------------------------------------------------
(* The parameters of the provider request *)

\* The sampling temperature a request asks for, "unset" if it asks for none
SamplingTemperature(call) ==
    IF "temperature" \in DOMAIN call.json THEN call.json.temperature
    ELSE IF "generationConfig" \in DOMAIN call.json
            /\ "temperature" \in DOMAIN call.json.generationConfig
    THEN call.json.generationConfig.temperature
    ELSE "unset"

\* The maximum output size a request asks for, 0 if it asks for none
MaxOutputTokens(call) ==
    IF "max_tokens" \in DOMAIN call.json THEN call.json.max_tokens
    ELSE IF "generationConfig" \in DOMAIN call.json
            /\ "maxOutputTokens" \in DOMAIN call.json.generationConfig
    THEN call.json.generationConfig.maxOutputTokens
    ELSE 0

\* C16: every request sent to a provider, whichever provider is selected, is
\* one POST with timeout 60, sampling temperature 0.7 and a maximum output
\* size of 4000 tokens.
C16_FixedRequestParameters ==
    /\ Len(http_calls) = Len(posts)
    /\ Len(http_calls) <= 1
    /\ \A i \in 1..Len(http_calls) :
          /\ http_calls[i].method = "POST"
          /\ http_calls[i].timeout = 60
          /\ SamplingTemperature(http_calls[i]) = "0.7"
          /\ MaxOutputTokens(http_calls[i]) = 4000

-----------------------------------------------------------------------------
(* Failure of the provider call *)

\* The provider error of a failed POST: the provider's name and the cause
ProviderError(provider, cause) ==
    [type |-> "AIServiceError",
     msg |-> ProviderName(provider) \o " API error: " \o cause]

\* C17: optimize_resume issues at most one POST; when the POST ends in a
\* timeout, a network failure or a non-2xx status, optimize_resume has raised
\* the provider error of the provider it called, with that cause, has
\* returned nothing, and the one POST is all it issued: no retry and no other
\* provider, whatever credentials there are.
C17_NoRetryAfterFailure ==
    /\ Len(posts) <= 1
    /\ Len(http_calls) = Len(posts)
    /\ reply \in HttpFailures
          => /\ ai_pc = "raised"
             /\ Len(posts) = 1
             /\ posts[1] = select_provider
             /\ ai_error = ProviderError(posts[1], reply.http)
             /\ response_data = None
             /\ ai_result = None

C17_Witness ==
    /\ reply = [http |-> "timeout"]
    /\ OPENAI_API_KEY # "" /\ ANTHROPIC_API_KEY # "" /\ GEMINI_API_KEY # ""
    /\ arg_use_claude /\ ~arg_use_gemini
    /\ posts = <<"claude">>
    /\ ai_pc = "raised"
    /\ ai_error = [type |-> "AIServiceError", msg |-> "Claude API error: timeout"]

-----------------------------------------------------------------------------
(* A 2xx reply without the text *)

ShapeError(provider) ==
    [type |-> "AIServiceError",
     msg |-> "Invalid " \o ProviderName(provider) \o " API response"]

EmptyResponseError ==
    [type |-> "AIServiceError", msg |-> "Empty response from Gemini API"]

\* C18 as stated: a 2xx reply that lacks the text at the provider's path makes
\* the call fail with the shape error of the provider, for each of the three
\* providers, except that an empty candidates list of Gemini fails with the
\* empty-response error.
C18_MissingTextIsShapeError ==
    reply \in BadEnvelopes
        => /\ ai_pc = "raised"
           /\ ai_error = IF posts[1] = "gemini" /\ reply.envelope = "empty_list"
                         THEN EmptyResponseError
                         ELSE ShapeError(posts[1])

\* C18 amended: as stated, except that Gemini fails with the empty-response
\* error also when the reply has no candidates list at all.
C18_MissingTextIsProviderError ==
    reply \in BadEnvelopes
        => /\ ai_pc = "raised"
           /\ ai_result = None
           /\ ai_error = IF posts[1] = "gemini"
                            /\ reply.envelope \in {"no_list", "empty_list"}
                         THEN EmptyResponseError
                         ELSE ShapeError(posts[1])

C18_Witness ==
    /\ posts = <<"gemini">>
    /\ reply = [http |-> "2xx", envelope |-> "no_list"]
    /\ ai_pc = "raised"
    /\ ai_error = EmptyResponseError

-----------------------------------------------------------------------------
(* Fence stripping *)

\* The provider's text was parsed to the value v: optimize_resume went on
\* to _parse_ai_response with it, which returned or failed on a value
\* without .get
ParsedTo(v) ==
    /\ response_data = v
    /\ \/ ai_pc = "returned"
       \/ ai_pc = "raised" /\ ai_error.type = "AttributeError"

\* C19: whichever provider returned the text, a JSON text between a leading
\* fence line (with or without the tag json) and a trailing fence line is
\* parsed to the value the text without the fence lines is parsed to, and a
\* text without a fence is parsed as it is after trimming: to its value if the
\* trimmed text is a JSON document, to a parse error otherwise.
C19_FenceStrippedBeforeParsing ==
    (reply.http = "2xx" /\ reply.envelope = "text")
        => /\ \A tag \in FenceTags, text \in JsonTexts :
                 reply.content = Wrapped(tag, text)
                     => /\ ~extract_json_from_response(text, reply.doc).raised
                        /\ ParsedTo(extract_json_from_response(text, reply.doc).value)
                        /\ ParsedTo(reply.doc)
           /\ Fence \notin Range(reply.content)
                 => IF str_strip(reply.content, Whitespace) = <<JsonDoc>>
                    THEN ParsedTo(reply.doc)
                    ELSE ParseError /\ response_data = None

C19_Witness ==
    /\ posts = <<"openai">>
    /\ reply.http = "2xx" /\ reply.envelope = "text"
    /\ reply.content = <<Fence, JsonWord, "\n", " ", JsonDoc, "\n", Fence>>
    /\ ParsedTo(reply.doc)
    /\ reply.doc # [k \in {} |-> None]

-----------------------------------------------------------------------------
(* The job description in the prompt *)

\* The prompt a request carries: the user message of OpenAI and of Claude,
\* the text of Gemini after the system instruction and the blank line
PromptOf(call) ==
    IF "contents" \in DOMAIN call.json
    THEN LET text == call.json.contents[1].parts[1].text
         IN SubSeq(text, 3, Len(text))
    ELSE call.json.messages[Len(call.json.messages)].content

JobHeading == "\nTARGET JOB DESCRIPTION:\n"

\* The places of the prompt where a job description block starts
JobBlocks(prompt) == {i \in 1..Len(prompt) : prompt[i] = JobHeading}

\* C20: the prompt sent to the provider has a TARGET JOB DESCRIPTION block,
\* the heading followed by the request's job description, exactly when the
\* job description is not empty: one block then, and no heading at all for an
\* empty job description.
C20_JobBlockIffJobDescription ==
    \A k \in 1..Len(http_calls) :
        LET prompt == PromptOf(http_calls[k])
        IN IF request.job_description = ""
           THEN JobBlocks(prompt) = {}
           ELSE /\ Cardinality(JobBlocks(prompt)) = 1
                /\ \A i \in JobBlocks(prompt) :
                      /\ prompt[i + 1] = request.job_description
                      /\ prompt[i + 2] = "\n"

C20_Witness ==
    /\ Len(http_calls) = 1
    /\ posts = <<"gemini">>
    /\ request.job_description = "Build APIs"
    /\ PromptOf(http_calls[1])[2] = JobHeading
    /\ PromptOf(http_calls[1])[3] = "Build APIs"

-----------------------------------------------------------------------------
(* The blocks of the prompt *)

PersonalHeading == "\n\nCANDIDATE INFORMATION:\n\nPERSONAL DETAILS:\n- Name: "

SummaryBlock == "\n\nCURRENT SUMMARY:\n"

SkillsBlock == "\n\nSKILLS:\n"

ExperienceBlock == "\n\nEXPERIENCE:"

EducationBlock == "\n\nEDUCATION:"

RequirementsBlock == "\n\n---\n\nOPTIMIZATION REQUIREMENTS:"

FormatBlock == "\n\n---\n\nRESPONSE FORMAT:\n"

JsonOnly == "Return ONLY valid JSON"

\* The place of a piece that occurs once in a prompt, 0 if it does not
\* occur once
PlaceOf(prompt, piece) ==
    LET places == {i \in 1..Len(prompt) : prompt[i] = piece}
    IN IF Cardinality(places) = 1 THEN CHOOSE i \in places : TRUE ELSE 0

\* The pieces of a prompt between two places
Between(prompt, from, to) == SubSeq(prompt, from + 1, to - 1)

\* The skills as the sentence has them: joined by commas, or the sentinel
CommaJoined(skills) ==
    IF skills = <<>> THEN <<"Not provided">>
    ELSE [i \in 1..(2 * Len(skills) - 1) |->
             IF i % 2 = 1 THEN skills[(i + 1) \div 2] ELSE ", "]

\* Block i of the experience of a prompt is numbered i and holds entry exp
IsExperienceBlock(block, i, exp) ==
    /\ Len(block) = 13
    /\ block[1] = "\nEXPERIENCE " /\ block[2] = ToString(i)
    /\ block[4] = exp.company /\ block[6] = exp.role
    /\ block[8] = exp.start_date /\ block[10] = exp.end_date
    /\ block[12] = exp.responsibilities

\* A line of the education of a prompt holds entry edu
IsEducationLine(line, edu) ==
    /\ Len(line) = 7
    /\ line[1] = "\n- " /\ line[2] = edu.degree
    /\ line[4] = edu.institution /\ line[6] = edu.year

RequirementHeadings ==
    <<"\n\n1. PROFESSIONAL SUMMARY:", "\n\n2. WORK EXPERIENCE:",
      "\n\n3. SKILLS OPTIMIZATION:", "\n\n4. ATS OPTIMIZATION:",
      "\n\n5. GENERAL IMPROVEMENTS:">>

\* C21: optimize_resume always gets a prompt from _build_optimization_prompt,
\* and every prompt sent has its blocks once each and in this order: the job
\* description (if any), the personal details with the name, the current
\* summary, the skills joined by commas or "Not provided" for no skill, one
\* block per experience entry numbered 1, 2, ... in request order, one line
\* per education entry in request order, the five requirements, and last the
\* response format, which starts with "Return ONLY valid JSON".
C21_PromptBlocksInFixedOrder ==
    /\ ai_pc \in {"awaiting", "returned"} => Len(http_calls) = 1
    /\ \A k \in 1..Len(http_calls) :
        LET prompt == PromptOf(http_calls[k])
            job == PlaceOf(prompt, JobHeading)
            personal == PlaceOf(prompt, PersonalHeading)
            summary == PlaceOf(prompt, SummaryBlock)
            skills == PlaceOf(prompt, SkillsBlock)
            experience == PlaceOf(prompt, ExperienceBlock)
            education == PlaceOf(prompt, EducationBlock)
            requirements == PlaceOf(prompt, RequirementsBlock)
            format == PlaceOf(prompt, FormatBlock)
            blocks == Between(prompt, experience, education)
            lines == Between(prompt, education, requirements)
        IN /\ (request.job_description # "") => (0 < job /\ job < personal)
           /\ 0 < personal /\ personal < summary /\ summary < skills
           /\ skills < experience /\ experience < education
           /\ education < requirements /\ requirements < format
           /\ prompt[personal + 1] = request.personal_info.full_name
           /\ Between(prompt, summary, skills) = <<request.summary>>
           /\ Between(prompt, skills, experience) = CommaJoined(request.skills)
           /\ Len(blocks) = 13 * Len(request.experience)
           /\ \A i \in 1..Len(request.experience) :
                 IsExperienceBlock(SubSeq(blocks, 13 * i - 12, 13 * i), i,
                                   request.experience[i])
           /\ Len(lines) = 7 * Len(request.education)
           /\ \A i \in 1..Len(request.education) :
                 IsEducationLine(SubSeq(lines, 7 * i - 6, 7 * i), request.education[i])
           /\ format = requirements + 11
           /\ \A n \in 1..5 : prompt[requirements + 2 * n - 1] = RequirementHeadings[n]
           /\ format = Len(prompt) - 2
           /\ prompt[format + 1] = JsonOnly

C21_Witness ==
    /\ Len(http_calls) = 1
    /\ Len(request.experience) = 2
    /\ request.skills # <<>>
    /\ LET prompt == PromptOf(http_calls[1])
           experience == PlaceOf(prompt, ExperienceBlock)
       IN /\ prompt[experience + 2] = "1"
          /\ prompt[experience + 4] = "Acme"
          /\ prompt[experience + 15] = "2"
          /\ prompt[experience + 17] = "Globex"
          /\ prompt[Len(prompt) - 1] = JsonOnly

-----------------------------------------------------------------------------
\* C22: a request with one experience entry, one education entry and template
\* "classic", sent while every call to the AI provider times out, is answered
\* with an error and writes no file, not even a partial one.
\* generate_resume calls ResumeBuilder and PDFService only: the request is
\* answered with 200 and its PDF is written.
IsClassicOneOne(request_) ==
    /\ Len(request_.experience) = 1
    /\ Len(request_.education) = 1
    /\ request_.template = "classic"

C22_TimeoutSurfacesProviderError ==
    (/\ ~provider_reachable
     /\ Len(gen_requests) = 1
     /\ IsClassicOneOne(gen_requests[1]))
        => /\ gen_responses[1].status # 200
           /\ output_dir = NoFiles

\* The same request is answered with 200 and its file is there
C22_Served ==
    /\ ~provider_reachable
    /\ Len(gen_requests) = 1
    /\ IsClassicOneOne(gen_requests[1])
    /\ gen_responses[1].status = 200
    /\ UrlFilename(gen_responses[1].body.pdf_download_url) \in DOMAIN output_dir

-----------------------------------------------------------------------------
\* C23: two generate_resume requests never write the same file path,
\* whatever their candidate names.
\* The path is the sanitized candidate name followed by "_resume.pdf": two
\* requests for one candidate, or for names that are sanitized alike, write
\* the same file and the second overwrites the first.
WrittenPath(i) == UrlFilename(gen_responses[i].body.pdf_download_url)

C23_UniqueFilePerRequest ==
    \A i, j \in 1..Len(gen_responses) :
        (i < j /\ gen_responses[i].status = 200 /\ gen_responses[j].status = 200)
            => WrittenPath(i) # WrittenPath(j)

\* Two candidates of different names, one file: the first request's PDF is gone
C23_Overwritten ==
    /\ Len(gen_responses) = 2
    /\ gen_responses[1].status = 200 /\ gen_responses[2].status = 200
    /\ gen_requests[1].personal_info.full_name # gen_requests[2].personal_info.full_name
    /\ WrittenPath(1) = WrittenPath(2)
    /\ output_dir[WrittenPath(1)].content = gen_responses[2].body.resume_html
    /\ Cardinality(DOMAIN output_dir) = 1

-----------------------------------------------------------------------------
\* C24: every exception that escapes generate_pdf is a PDFServiceError, also
\* when xhtml2pdf reports a rendering error.
\* The only PDFServiceError is raised inside the try block and caught by its
\* own "except Exception"; what escapes is whatever the reportlab fallback
\* raises.
C24_OnlyPDFServiceErrorEscapes ==
    pdf_pc = "raised" => pdf_error.type = "PDFServiceError"

-----------------------------------------------------------------------------
\* C25: download_resume_pdf answers 400 "Invalid filename" for a filename that
\* is empty, contains ".." or starts with "/", whether or not a file exists;
\* for any other filename it appends ".pdf" when the suffix is missing,
\* answers 404 exactly when the output directory has no file of that name,
\* and serves that file otherwise.
IsRejected(f) ==
    \/ Len(f) = 0
    \/ \E i \in 1..Len(f) : i < Len(f) /\ SubSeq(f, i, i + 1) = <<".", ".">>
    \/ Head(f) = "/"

Suffixed(f) ==
    IF Len(f) >= 4 /\ [i \in 1..4 |-> f[Len(f) - 4 + i]] = <<".", "p", "d", "f">>
    THEN f
    ELSE f \o <<".", "p", "d", "f">>

\* The answer to filename f on the output directory dir is what C25 says
IsDownloadAnswer(answer, f, dir) ==
    IF IsRejected(f)
    THEN answer.status = 400 /\ answer.detail = "Invalid filename"
    ELSE /\ answer.status \in {200, 404}
         /\ answer.status = 404 <=> Suffixed(f) \notin DOMAIN dir
         /\ answer.status = 200 =>
               /\ answer.body.path = Suffixed(f)
               /\ answer.body.file = dir[Suffixed(f)]

C25_DownloadAnswer ==
    [][(dl_pc = "idle" /\ dl_pc' = "done")
          => IsDownloadAnswer(dl_response', dl_filename', output_dir)]_vars

\* A file is served under a filename that came without ".pdf"
C25_Witness ==
    /\ dl_pc = "done"
    /\ dl_response.status = 200
    /\ Suffixed(dl_filename) # dl_filename

-----------------------------------------------------------------------------
\* C26: after generate_resume has answered 200, a download of the filename in
\* the returned pdf_download_url is accepted (neither 400 nor 404) and serves
\* the file that request wrote, for every valid candidate name.
\* _sanitize_filename keeps dots: for the candidate "J..Doe" the returned URL
\* names "j..doe_resume.pdf", which download_resume_pdf rejects with 400. And
\* the file of a request is overwritten by a later request of the same
\* sanitized name.
IsDownloadOf(f, i) ==
    /\ i \in 1..Len(gen_responses)
    /\ gen_responses[i].status = 200
    /\ f = UrlFilename(gen_responses[i].body.pdf_download_url)

C26_ReturnedUrlIsServed ==
    [][(dl_pc = "idle" /\ dl_pc' = "done")
          => \A i \in 1..Len(gen_responses) :
                IsDownloadOf(dl_filename', i)
                    => /\ dl_response'.status = 200
                       /\ dl_response'.body.file.content
                              = gen_responses[i].body.resume_html]_vars

\* The URL returned for the candidate "J..Doe" is answered with 400 while
\* the file is there
C26_Rejected ==
    /\ dl_pc = "done"
    /\ IsDownloadOf(dl_filename, 1)
    /\ Len(gen_responses) = 1
    /\ gen_requests[1].personal_info.full_name = "J..Doe"
    /\ dl_filename \in DOMAIN output_dir
    /\ dl_response.status = 400

-----------------------------------------------------------------------------
\* C30: generate_resume returns a ResumeResponse or raises an HTTPException
\* with status 500. A failure of the HTML generation is reported as "HTML
\* generation failed: ..." and not re-wrapped as "Unexpected error"; any other
\* exception is reported as "Unexpected error: ...". On success the response
\* echoes the request: its summary and skills, and its experience and
\* education entries one to one and in order, with empty achievements.
UnexpectedErrors == {"Unexpected error: reportlab: " \o type : type \in ReportlabRuns}

EchoesRequest(body, request_) ==
    /\ body.optimized_summary = request_.summary
    /\ body.optimized_skills = request_.skills
    /\ Len(body.optimized_experience) = Len(request_.experience)
    /\ \A i \in 1..Len(request_.experience) :
          LET item == body.optimized_experience[i]
              exp == request_.experience[i]
          IN /\ item.company = exp.company /\ item.role = exp.role
             /\ item.start_date = exp.start_date /\ item.end_date = exp.end_date
             /\ item.responsibilities = exp.responsibilities
             /\ item.achievements = <<>>
    /\ Len(body.optimized_education) = Len(request_.education)
    /\ \A i \in 1..Len(request_.education) :
          LET item == body.optimized_education[i]
              edu == request_.education[i]
          IN /\ item.degree = edu.degree /\ item.institution = edu.institution
             /\ item.year = edu.year

-----------------------------------------------------------------------------
\* C27: for the same personal info, summary, skills, experience, education
\* and template, build_resume on optimized data whose experience entries have
\* no achievements gives exactly the HTML build_resume_from_request gives on
\* the request data; the two paths differ in the achievements only.
WithoutAchievements(data) ==
    [data EXCEPT !.experience =
        [i \in 1..Len(data.experience) |-> [data.experience[i] EXCEPT !.achievements = <<>>]]]

NoAchievements(data) ==
    \A i \in 1..Len(data.experience) : data.experience[i].achievements = <<>>

RequestItems(data) == [i \in 1..Len(data.experience) |-> as_item(data.experience[i])]

C27_SameHtmlOnBothPaths ==
    render_pc = "returned" =>
        IF builder = "build_resume_from_request"
        THEN html = build_resume(arg_personal_info,
                                 WithoutAchievements(arg_optimized_data),
                                 arg_template).value
        ELSE NoAchievements(arg_optimized_data)
                => html = build_resume_from_request(
                              arg_personal_info, arg_optimized_data.summary,
                              arg_optimized_data.skills,
                              RequestItems(arg_optimized_data),
                              arg_optimized_data.education, arg_template).value

\* build_resume has rendered an entry of two bullets and no achievements
C27_Witness ==
    /\ render_pc = "returned"
    /\ builder = "build_resume"
    /\ Len(arg_optimized_data.experience) = 1
    /\ arg_optimized_data.experience[1].responsibilities = DidXDidY
    /\ arg_optimized_data.experience[1].achievements = <<>>
    /\ Len(entry_bullet_points[1]) = 2

-----------------------------------------------------------------------------
\* C28: for every combination of the use_claude and use_gemini flags and of
\* the three credentials, a provider's HTTP POST is issued only when that
\* provider's API key is non-empty.
ApiKeyOf(provider) ==
    CASE provider = "gemini" -> GEMINI_API_KEY
      [] provider = "claude" -> ANTHROPIC_API_KEY
      [] provider = "openai" -> OPENAI_API_KEY

C28_NoPostWithoutCredential ==
    /\ Len(http_calls) = Len(posts)
    /\ \A i \in 1..Len(posts) :
          /\ posts[i] \in Providers
          /\ ApiKeyOf(posts[i]) # ""

\* Both flags were set and neither key: the POST went to OpenAI
C28_Witness ==
    /\ arg_use_gemini /\ GEMINI_API_KEY = ""
    /\ arg_use_claude /\ ANTHROPIC_API_KEY = ""
    /\ posts = <<"openai">>

-----------------------------------------------------------------------------
\* C29: optimize_resume returns an OptimizedResumeData or raises
\* AIServiceError: whatever the provider replies (a 2xx body of any JSON
\* shape, a text that is null, a text that parses to a JSON value that is no
\* object or whose list entries are no objects), no exception of another type
\* escapes.
\* A null text raises TypeError in re.sub, a JSON array as body raises
\* TypeError in data["choices"], and a parsed value without .get raises
\* AttributeError in _parse_ai_response; none of them is caught.
C29_OnlyAIServiceErrorEscapes ==
    ai_pc = "raised" => ai_error.type = "AIServiceError"

\* The OpenAI reply whose message content is null ends in a TypeError
C29_TypeErrorEscapes ==
    /\ ai_pc = "raised"
    /\ posts = <<"openai">>
    /\ reply = [http |-> "2xx", envelope |-> "null_text"]
    /\ ai_error.type = "TypeError"

====
